---- MODULE Spec2Model ----
(***************************************************************************)
(* A model of the opencensus-rs trace crate (src/trace/src): span start    *)
(* and sampling, span end and export, the binary propagation codec, the    *)
(* span bucket ring buffer, the tracestate list and the span store         *)
(* registry.  Byte strings (ids, keys, wire buffers) are sequences of      *)
(* numbers 0..255; an Option is a sequence of length 0 (None) or 1 (Some). *)
(***************************************************************************)
EXTENDS Integers, Sequences, FiniteSets, TLC

VARIABLES
    (* trace.rs / config.rs / export.rs *)
    default_sampler,   \* CONFIG.default_sampler
    spans,             \* every Span created so far (clones share one entry)
    start_log,         \* per span: the arguments of its start and the sampler calls made
    exporters,         \* EXPORTERS: the registered exporters, in registration order
    exported,          \* every export_span call made so far, in order
    finished,          \* every SpanStore::finished call made by Span::end so far, in order
    pc,                \* per thread: its position inside Span::end
    cur,               \* per thread: the span its end call is about
    snap,              \* per thread: the SpanData snapshot built by its end call
    next_exp,          \* per thread: index of the next exporter to call
    end_calls,         \* per span: how many end calls have returned
    end_snapshot,      \* per span: the registry seen by the end call that ran the body
    now,               \* the reading of Instant::now()
    registry_call,     \* the last call of register_exporter or unregister_exporter
    (* propagation.rs *)
    codec_pc,          \* what has been done to the codec's input so far
    codec_sc,          \* the SpanContext given to to_binary
    wire,              \* the bytes on the wire
    decoded,           \* what from_binary returned
    reencoded,         \* what to_binary made of the context from_binary returned
    (* spanbucket.rs *)
    bucket_state,      \* "none" before Bucket::new, then "live", "panicked" after a panic
    bucket,            \* the Bucket
    bucket_hist,       \* the calls made on the bucket, in order
    (* tracestate.rs *)
    ts_held,           \* the Tracestate the caller holds and derives from, if any
    ts_parent,         \* the parent given to the last Tracestate::try_new
    ts_entries,        \* the entries given to the last Tracestate::try_new
    ts_result,         \* what the last Tracestate::try_new returned, if it was called
    (* spanstore.rs *)
    SPAN_STORES,       \* the registry: the Arc (an index of stores) kept for each name
    stores,            \* every SpanStore created so far
    store_pc,          \* per thread: its position inside span_store_for_name_create_if_new
    store_name,        \* per thread: the name its call is about
    store_returns,     \* every value the registry's functions returned, in order
    (* sampling.rs *)
    sp_sampler,        \* a Sampler that was built
    sp_prev,           \* the call of the sampler before the last one, if any
    sp_last,           \* the last call of the sampler, if any: its parameters and decision
    (* tracestate.rs: Key and Value *)
    kv_call,           \* the constructor called last: "Key::try_new" or "Value::try_new"
    kv_input,          \* the string it was given
    kv_result,         \* what it returned, if it was called
    (* spanbucket.rs: latency_bucket *)
    lat_prev,          \* the call of latency_bucket before the last one, if any
    lat_last,          \* the last call of latency_bucket, if any: its latency and result
    (* spanstore.rs: SpanStore *)
    ss_state,          \* "none" before SpanStore::new, then "live", "panicked" after a panic
    ss,                \* the SpanStoreContents
    ss_before,         \* the SpanStoreContents the last call of finished found
    ss_call,           \* the last call of finished, if any: its SpanData and the calls it made
    ss_ops,            \* how many calls of resize and finished were made
    (* trace.rs: the mutators of Span *)
    mut_log,           \* the calls of set_name, set_status, add_attributes, add_link so far
    span_prev,         \* the Bucket::span call before the last one, if any
    span_last          \* the last Bucket::span call: the bucket, the index, what it returned

span_vars == <<default_sampler, spans, start_log, exporters, exported, finished, pc,
               cur, snap, next_exp, end_calls, end_snapshot, now>>

codec_vars == <<codec_pc, codec_sc, wire, decoded, reencoded>>

bucket_vars == <<bucket_state, bucket, bucket_hist>>

ts_vars == <<ts_held, ts_parent, ts_entries, ts_result>>

store_vars == <<SPAN_STORES, stores, store_pc, store_name, store_returns>>

sampler_vars == <<sp_sampler, sp_prev, sp_last>>

kv_vars == <<kv_call, kv_input, kv_result>>

latency_vars == <<lat_prev, lat_last>>

finish_vars == <<ss_state, ss, ss_before, ss_call, ss_ops>>

spancall_vars == <<span_prev, span_last>>

vars == <<span_vars, registry_call, codec_vars, bucket_vars, ts_vars, store_vars,
          sampler_vars, kv_vars, latency_vars,
          finish_vars,
          mut_log,
          spancall_vars>>

-----------------------------------------------------------------------------
(* Bounds of the model *)

\* most spans created in one behaviour of the life cycle specification
MaxSpans == 1
\* most spans of the trace the start specification follows
MaxStarts == 2
\* threads that call Span::end
NumThreads == 2
\* most end calls made per span
MaxEndCalls == 2
\* last tick of the clock
MaxClock == 1
\* most bytes a wire buffer has beyond the 29 of the format
MaxExtra == 1
\* largest bucket size asked for
MaxCap == 2
\* most add and resize calls made on the bucket
MaxBucketOps == 4
\* most entries of a list of entries written out by hand
MaxEntries == 2
\* most calls made on the span store registry
MaxStoreCalls == 3
\* most bytes of a string written out by hand
MaxStrLen == 2
\* most calls of resize and finished made on one span store
MaxStoreOps == 3
\* most calls of the mutators of a span
MaxMutations == 2
\* how far from a boundary of the latency buckets the latencies tried lie, in
\* microseconds
MaxLatencyOffset == 1

-----------------------------------------------------------------------------
(* Option values and byte strings *)

None == <<>>
Some(x) == <<x>>
IsSome(o) == Len(o) = 1
Unwrap(o) == o[1]

Zero8 == <<0, 0, 0, 0, 0, 0, 0, 0>>
Zero16 == Zero8 \o Zero8

\* the ids of the tests of trace.rs, and some more
TID == <<1, 2, 3, 4, 5, 6, 7, 8, 1, 2, 4, 8, 16, 32, 64, 128>>
HighTID == <<255, 254, 3, 4, 5, 6, 7, 8, 1, 2, 4, 8, 16, 32, 64, 128>>
SID == <<1, 2, 4, 8, 16, 32, 64, 128>>
SID2 == <<97, 98, 99, 100, 101, 102, 103, 104>>

TraceIDs == {TID, HighTID, Zero16}
SpanIDs == {SID, SID2, Zero8}

-----------------------------------------------------------------------------
(* sampling.rs *)

\* a Sampler closure: its kind and, for a probability sampler, the captured bound
SamplerOf(kind, bound) == [kind |-> kind, trace_id_upper_bound |-> bound]

always_sample == SamplerOf("always", Zero8)
never_sample == SamplerOf("never", Zero8)

\* floor(k/4 * 2^63) for 0 <= k < 4, as 8 big-endian bytes: k * 2^61
UpperBoundOfQuarters(k) == <<k * 32, 0, 0, 0, 0, 0, 0, 0>>

\* probability_sampler(k/4)
probability_sampler(k) ==
    IF k >= 4 THEN always_sample
    ELSE SamplerOf("probability", UpperBoundOfQuarters(IF k < 0 THEN 0 ELSE k))

\* floor(1e-4 * 2^63) = 922337203685477
DEFAULT_SAMPLER == SamplerOf("probability", <<0, 3, 70, 220, 93, 99, 136, 101>>)

\* BigEndian::read_u64(b), not shifted
ShiftRight1_not_shifting(b) == b

\* BigEndian::read_u64(b) >> 1, on 8 bytes
ShiftRight1(b) ==
    [i \in 1..8 |-> (b[i] \div 2) + (IF i > 1 THEN (b[i - 1] % 2) * 128 ELSE 0)]

\* a < b for two big-endian byte strings of one length
RECURSIVE LessBE(_, _)
LessBE(a, b) ==
    IF a = <<>> THEN FALSE
    ELSE IF a[1] # b[1] THEN a[1] < b[1]
    ELSE LessBE(Tail(a), Tail(b))

is_sampled(trace_options) == trace_options % 2 = 1

\* a probability sampler that does not look at the parent
Sample_without_parent_test(s, p) ==
    CASE s.kind = "always" -> TRUE
      [] s.kind = "never" -> FALSE
      [] OTHER -> LessBE(ShiftRight1(SubSeq(p.trace_id, 1, 8)), s.trace_id_upper_bound)

\* a probability sampler that reads the last 8 bytes of the trace id
Sample_on_last_bytes(s, p) ==
    CASE s.kind = "always" -> TRUE
      [] s.kind = "never" -> FALSE
      [] OTHER ->
           IF IsSome(p.parent_context)
              /\ is_sampled(Unwrap(p.parent_context).trace_options)
           THEN TRUE
           ELSE LessBE(ShiftRight1(SubSeq(p.trace_id, 9, 16)), s.trace_id_upper_bound)

\* the decision of sampler s on SamplingParameters p
Sample(s, p) ==
    CASE s.kind = "always" -> TRUE
      [] s.kind = "never" -> FALSE
      [] OTHER ->
           IF IsSome(p.parent_context)
              /\ is_sampled(Unwrap(p.parent_context).trace_options)
           THEN TRUE
           ELSE LessBE(ShiftRight1(SubSeq(p.trace_id, 1, 8)), s.trace_id_upper_bound)

-----------------------------------------------------------------------------
(* trace.rs: SpanContext, StartOptions, start_span_internal *)

SpanContextOf(tid, sid, opts, ts) ==
    [trace_id |-> tid, span_id |-> sid, trace_options |-> opts, trace_state |-> ts]

\* SpanContext::default()
DefaultSpanContext == SpanContextOf(Zero16, Zero8, 0, None)

\* SpanContext::set_is_sampled on a u32
set_is_sampled(sc, sampled) ==
    [sc EXCEPT !.trace_options =
        IF sampled THEN (@ - (@ % 2)) + 1 ELSE @ - (@ % 2)]

StartOptionsOf(sampler, kind) == [sampler |-> sampler, span_kind |-> kind]

\* StartOptions::default()
StartOptions_default == StartOptionsOf(None, "Unspecified")

\* the StartOption of with_span_kind, applied to o
with_span_kind(o, span_kind) == [o EXCEPT !.span_kind = span_kind]

\* a start that looks at the parent only, never at the per-call sampler
must_sample_ignoring_option(parent, remote_parent, o) ==
    parent = None \/ remote_parent

\* a start that makes a sampling decision for every span
must_sample_always(parent, remote_parent, o) == TRUE

\* line 85: is a sampling decision made for this start?
must_sample(parent, remote_parent, o) ==
    parent = None \/ remote_parent \/ IsSome(o.sampler)

\* lines 83-88: the sampler that decides
chosen_sampler(cfg_sampler, o) ==
    IF IsSome(o.sampler) THEN Unwrap(o.sampler) ELSE cfg_sampler

\* a context that takes a new trace id also under a parent
derived_context_with_new_trace(parent, tid, sid) ==
    LET base == IF IsSome(parent) THEN Unwrap(parent) ELSE DefaultSpanContext
    IN  [base EXCEPT !.trace_id = tid, !.span_id = sid]

\* lines 78-82: the calls made on the id generator, with what they return
id_generator_calls(parent, tid, sid) ==
    (IF parent = None THEN <<[fn |-> "new_trace_id", ret |-> tid]>> ELSE <<>>)
        \o <<[fn |-> "new_span_id", ret |-> sid]>>

\* lines 72-82: the context before sampling
derived_context(parent, tid, sid) ==
    LET base == IF IsSome(parent) THEN Unwrap(parent) ELSE DefaultSpanContext
        withTrace == IF parent = None THEN [base EXCEPT !.trace_id = tid] ELSE base
    IN  [withTrace EXCEPT !.span_id = sid]

SamplingParametersOf(parent, sc, name, remote_parent) ==
    [parent_context |-> parent, trace_id |-> sc.trace_id, span_id |-> sc.span_id,
     name |-> name, has_remote_parent |-> remote_parent]

\* a SpanData that does not take the span kind of the options
NewSpanData_with_default_kind(sc, parent, o, name, remote_parent, start_time) ==
    [span_context |-> sc,
     parent_span_id |-> IF IsSome(parent) THEN Some(Unwrap(parent).span_id) ELSE None,
     span_kind |-> "Unspecified",
     name |-> name,
     start_time |-> start_time,
     end_time |-> None,
     attributes |-> <<>>,
     annotations |-> <<>>,
     message_events |-> <<>>,
     status |-> None,
     links |-> <<>>,
     has_remote_parent |-> remote_parent]

\* lines 111-124
NewSpanData(sc, parent, o, name, remote_parent, start_time) ==
    [span_context |-> sc,
     parent_span_id |-> IF IsSome(parent) THEN Some(Unwrap(parent).span_id) ELSE None,
     span_kind |-> o.span_kind,
     name |-> name,
     start_time |-> start_time,
     end_time |-> None,
     attributes |-> <<>>,
     annotations |-> <<>>,
     message_events |-> <<>>,
     status |-> None,
     links |-> <<>>,
     has_remote_parent |-> remote_parent]

\* a start that records every span, sampled or not
start_span_recording_all(name, parent, remote_parent, o, cfg_sampler, tid, sid, start_time) ==
    LET sc0 == derived_context(parent, tid, sid)
        consult == must_sample(parent, remote_parent, o)
        params == SamplingParametersOf(parent, sc0, name, remote_parent)
        sampler == chosen_sampler(cfg_sampler, o)
        sc == IF consult THEN set_is_sampled(sc0, Sample(sampler, params)) ELSE sc0
    IN  [data |-> Some(NewSpanData(sc, parent, o, name, remote_parent, start_time)),
         span_context |-> sc,
         span_store |-> None,
         end_once |-> "incomplete",
         id_calls |-> id_generator_calls(parent, tid, sid),
         sampler_calls |-> IF consult THEN <<[sampler |-> sampler, params |-> params]>>
                           ELSE <<>>]

\* the Span value start_span_internal returns; tid and sid are what the configured
\* id generator hands out
start_span_internal(name, parent, remote_parent, o, cfg_sampler, tid, sid, start_time) ==
    LET sc0 == derived_context(parent, tid, sid)
        consult == must_sample(parent, remote_parent, o)
        params == SamplingParametersOf(parent, sc0, name, remote_parent)
        sampler == chosen_sampler(cfg_sampler, o)
        sc == IF consult THEN set_is_sampled(sc0, Sample(sampler, params)) ELSE sc0
    IN  [data |-> IF is_sampled(sc.trace_options)
                  THEN Some(NewSpanData(sc, parent, o, name, remote_parent, start_time))
                  ELSE None,
         span_context |-> sc,
         span_store |-> None,
         end_once |-> "incomplete",
         id_calls |-> id_generator_calls(parent, tid, sid),
         sampler_calls |-> IF consult THEN <<[sampler |-> sampler, params |-> params]>>
                           ELSE <<>>]

\* the part of a start's result that is the Span itself
SpanOf(r) ==
    [data |-> r.data, span_context |-> r.span_context, span_store |-> r.span_store,
     end_once |-> r.end_once]

\* one start of a span: parent_span = 0 for none or a remote parent, else the index
\* of the local parent span; tid is what new_trace_id returns when it is called (with
\* a parent it is not called)
StartSpan(name, parent, parent_span, remote_parent, o, tid, sid) ==
    /\ LET r == start_span_internal(name, parent, remote_parent, o,
                                    default_sampler, tid, sid, now)
       IN  /\ spans' = Append(spans, SpanOf(r))
           /\ start_log' = Append(start_log,
                  [name |-> name, parent |-> parent, parent_span |-> parent_span,
                   remote_parent |-> remote_parent, o |-> o,
                   cfg_sampler |-> default_sampler,
                   id_calls |-> r.id_calls,
                   sampler_calls |-> r.sampler_calls])
           /\ end_calls' = Append(end_calls, 0)
           /\ end_snapshot' = Append(end_snapshot, None)
    /\ UNCHANGED <<default_sampler, exporters, exported, finished, pc, cur, snap,
                   next_exp, now>>

\* start_span on a context that holds no span
StartRoot(name, o, tid, sid) ==
    StartSpan(name, None, 0, FALSE, o, tid, sid)

\* start_span on a context that holds span j
StartChild(j, name, o, sid) ==
    /\ j \in 1..Len(spans)
    /\ StartSpan(name, Some(spans[j].span_context), j, FALSE, o, Zero16, sid)

\* start_span_with_remote_parent
StartWithRemoteParent(name, parent, o, sid) ==
    StartSpan(name, Some(parent), 0, TRUE, o, Zero16, sid)

-----------------------------------------------------------------------------
(* trace.rs: the mutators of Span.  The SpanData behind the Arc is the data of *)
(* the span's entry, which its clones share; attributes are a HashMap, a       *)
(* function from its keys.                                                     *)

\* a set_name that makes the SpanData when the span has none
set_name_making_data(span, name) ==
    [span EXCEPT !.data =
        Some(NewSpanData(span.span_context, None, StartOptionsOf(None, "Unspecified"),
                         name, FALSE, 0))]

\* Span::set_name
set_name(span, name) ==
    IF IsSome(span.data)
    THEN [span EXCEPT !.data = Some([Unwrap(@) EXCEPT !.name = name])]
    ELSE span

\* Span::set_status
set_status(span, status) ==
    IF IsSome(span.data)
    THEN [span EXCEPT !.data = Some([Unwrap(@) EXCEPT !.status = Some(status)])]
    ELSE span

\* Span::add_attributes, given a HashMap: the pairs it yields are collected into a
\* HashMap, which becomes the attributes
add_attributes(span, attrs) ==
    IF IsSome(span.data)
    THEN [span EXCEPT !.data = Some([Unwrap(@) EXCEPT !.attributes = attrs])]
    ELSE span

\* an add_link that writes back a list it read before the other writers
add_link_losing_updates(span, l) ==
    IF IsSome(span.data)
    THEN [span EXCEPT !.data = Some([Unwrap(@) EXCEPT !.links = <<l>>])]
    ELSE span

\* Span::add_link
add_link(span, l) ==
    IF IsSome(span.data)
    THEN [span EXCEPT !.data = Some([Unwrap(@) EXCEPT !.links = Append(@, l)])]
    ELSE span

InitMutators == mut_log = <<>>

\* a call of a mutator on span s, written down: the method, the span, the argument
\* and whether it came before the end of the span took its snapshot
MutatorCall(fn, s, arg) ==
    [fn |-> fn, span |-> s, arg |-> arg, before_end |-> end_snapshot[s] = None]

\* a mutator whose write shows in the SpanData the exporters were handed
Mutate_through_alias(fn, s, arg, after) ==
    /\ s \in 1..Len(spans)
    /\ Len(mut_log) < MaxMutations
    /\ spans' = [spans EXCEPT ![s] = after]
    /\ mut_log' = Append(mut_log, MutatorCall(fn, s, arg))
    /\ exported' = [i \in 1..Len(exported) |->
                       IF exported[i].span = s /\ IsSome(after.data)
                       THEN [exported[i] EXCEPT !.data = Unwrap(after.data)]
                       ELSE exported[i]]
    /\ UNCHANGED <<default_sampler, start_log, exporters, finished, pc, cur,
                   snap, next_exp, end_calls, end_snapshot, now>>

\* a mutator is called on span s or a clone of it and leaves the span as after
Mutate(fn, s, arg, after) ==
    /\ s \in 1..Len(spans)
    /\ Len(mut_log) < MaxMutations
    /\ spans' = [spans EXCEPT ![s] = after]
    /\ mut_log' = Append(mut_log, MutatorCall(fn, s, arg))
    /\ UNCHANGED <<default_sampler, start_log, exporters, exported, finished, pc, cur,
                   snap, next_exp, end_calls, end_snapshot, now>>

SetName(s, name) == Mutate("set_name", s, name, set_name(spans[s], name))

SetStatus(s, status) == Mutate("set_status", s, status, set_status(spans[s], status))

AddAttributes(s, attrs) ==
    Mutate("add_attributes", s, attrs, add_attributes(spans[s], attrs))

AddLink(s, l) == Mutate("add_link", s, l, add_link(spans[s], l))

-----------------------------------------------------------------------------
(* sampling.rs: a sampler is built and called *)

InitSampler ==
    /\ sp_sampler = DEFAULT_SAMPLER
    /\ sp_prev = None
    /\ sp_last = None

\* probability_sampler(k/4) is called
BuildSampler(k) ==
    /\ sp_sampler' = probability_sampler(k)
    /\ sp_prev' = None
    /\ sp_last' = None

\* the sampler is called with the SamplingParameters p
CallSampler(p) ==
    /\ sp_prev' = sp_last
    /\ sp_last' = Some([params |-> p, sample |-> Sample(sp_sampler, p)])
    /\ UNCHANGED sp_sampler

-----------------------------------------------------------------------------
(* config.rs *)

set_global_default_sampler(sampler) ==
    /\ default_sampler' = sampler
    /\ UNCHANGED <<spans, start_log, exporters, exported, finished, pc, cur, snap, next_exp,
                   end_calls, end_snapshot, now>>

-----------------------------------------------------------------------------
(* export.rs: the exporter registry.  A writer takes EXPORTERS.write(), which *)
(* waits while an end call holds the read guard.                              *)

Exporters == {"te1", "te2"}

Threads == 1..NumThreads

\* the threads that hold EXPORTERS.read()
ReadGuards == {t \in Threads : pc[t] = "export"}

RECURSIVE SelectSeqBy(_, _)
\* the elements x of seq with keep[x], in order
SelectSeqBy(seq, keep) ==
    IF seq = <<>> THEN <<>>
    ELSE (IF keep[Head(seq)] THEN <<Head(seq)>> ELSE <<>>)
         \o SelectSeqBy(Tail(seq), keep)

InSeq(x, seq) == \E i \in 1..Len(seq) : seq[i] = x

\* a registration that does not look for e in the list
registered_without_lookup(list, e) == Append(list, e)

\* the registry after register_exporter(e)
registered(list, e) ==
    IF InSeq(e, list) THEN list ELSE Append(list, e)

\* the registry after unregister_exporter(e): the filter keeps what is ptr_eq to e
unregistered(list, e) ==
    SelectSeqBy(list, [x \in Exporters |-> x = e])

\* a registration that does not wait for the read guards to be dropped
register_exporter_without_lock(e) ==
    /\ exporters' = registered(exporters, e)
    /\ UNCHANGED <<default_sampler, spans, start_log, exported, finished, pc, cur, snap,
                   next_exp, end_calls, end_snapshot, now>>

register_exporter(e) ==
    /\ ReadGuards = {}
    /\ exporters' = registered(exporters, e)
    /\ UNCHANGED <<default_sampler, spans, start_log, exported, finished, pc, cur, snap,
                   next_exp, end_calls, end_snapshot, now>>

unregister_exporter(e) ==
    /\ ReadGuards = {}
    /\ exporters' = unregistered(exporters, e)
    /\ UNCHANGED <<default_sampler, spans, start_log, exported, finished, pc, cur, snap,
                   next_exp, end_calls, end_snapshot, now>>

\* a call of the registry: the function, its argument and the registry it found
RegistryCallOf(fn, e, before) == [fn |-> fn, e |-> e, before |-> before]

InitRegistryCall == registry_call = RegistryCallOf("", "", <<>>)

\* register_exporter(e), the call written down
RegisterCall(e) ==
    /\ register_exporter(e)
    /\ registry_call' = RegistryCallOf("register_exporter", e, exporters)

\* unregister_exporter(e), the call written down
UnregisterCall(e) ==
    /\ unregister_exporter(e)
    /\ registry_call' = RegistryCallOf("unregister_exporter", e, exporters)

-----------------------------------------------------------------------------
(* trace.rs: Span::end, one action per step of a thread *)

is_recording_events(span) == IsSome(span.data)

\* a Once that lets every caller run the closure
call_once_every_caller_runs(state) == "run"

\* Once::call_once: does this caller run the closure, wait for the caller that
\* runs it, or return at once?
call_once(state) ==
    CASE state = "incomplete" -> "run"
      [] state = "running" -> "wait"
      [] OTHER -> "return"

\* line 143
must_export(span, list) ==
    is_sampled(span.span_context.trace_options) /\ list # <<>>

\* make_span_data: a clone of the shared record
make_span_data(span) == span.data

\* the end calls on span s that are under way
InEnd(s) == {t \in Threads : pc[t] # "idle" /\ cur[t] = s}

Returned(t, s) ==
    /\ pc' = [pc EXCEPT ![t] = "idle"]
    /\ cur' = [cur EXCEPT ![t] = 0]
    /\ snap' = [snap EXCEPT ![t] = None]
    /\ next_exp' = [next_exp EXCEPT ![t] = 0]
    /\ end_calls' = [end_calls EXCEPT ![s] = @ + 1]

\* lines 136-141: the recording test and the entry into call_once
EndCall(t, s) ==
    /\ pc[t] = "idle"
    /\ s \in 1..Len(spans)
    /\ end_calls[s] + Cardinality(InEnd(s)) < MaxEndCalls
    /\ IF ~is_recording_events(spans[s]) \/ call_once(spans[s].end_once) = "return"
       THEN Returned(t, s) /\ UNCHANGED spans
       ELSE /\ cur' = [cur EXCEPT ![t] = s]
            /\ IF call_once(spans[s].end_once) = "run"
               THEN /\ spans' = [spans EXCEPT ![s].end_once = "running"]
                    /\ pc' = [pc EXCEPT ![t] = "lock"]
               ELSE /\ pc' = [pc EXCEPT ![t] = "wait"]
                    /\ UNCHANGED spans
            /\ UNCHANGED <<snap, next_exp, end_calls>>
    /\ UNCHANGED <<default_sampler, start_log, exporters, exported, finished,
                   end_snapshot, now>>

\* a caller of call_once that found the closure running returns when it is done
EndWait(t) ==
    /\ pc[t] = "wait"
    /\ spans[cur[t]].end_once = "complete"
    /\ Returned(t, cur[t])
    /\ UNCHANGED <<default_sampler, spans, start_log, exporters, exported, finished,
                   end_snapshot, now>>

\* an end that leaves the Once as it was when nothing was there to hand over
Completed_to_be_retried(t, s, sd) ==
    /\ finished' = finished
    /\ spans' = [spans EXCEPT ![s].end_once = IF IsSome(sd) THEN "complete"
                                              ELSE "incomplete"]
    /\ Returned(t, s)

\* lines 153-156 and the end of the closure of call_once: the snapshot sd, if one
\* was made, goes to finished of the span's store, if it has one; the read guard is
\* dropped, the Once is complete and the caller returns
Completed(t, s, sd) ==
    /\ finished' =
           IF IsSome(sd) /\ IsSome(spans[s].span_store)
           THEN Append(finished,
                    [store |-> Unwrap(spans[s].span_store), span |-> s, data |-> Unwrap(sd)])
           ELSE finished
    /\ spans' = [spans EXCEPT ![s].end_once = "complete"]
    /\ Returned(t, s)

\* lines 142-146: take the read guard, decide whether there is anything to do and
\* if so build the snapshot and stamp its end time
EndLock(t) ==
    /\ pc[t] = "lock"
    /\ LET span == spans[cur[t]]
           data == make_span_data(span)
           span_data == Some([Unwrap(data) EXCEPT !.end_time = Some(now)])
       IN  IF (IsSome(span.span_store) \/ must_export(span, exporters)) /\ IsSome(data)
           THEN IF must_export(span, exporters)
                THEN /\ snap' = [snap EXCEPT ![t] = span_data]
                     /\ next_exp' = [next_exp EXCEPT ![t] = 1]
                     /\ pc' = [pc EXCEPT ![t] = "export"]
                     /\ UNCHANGED <<spans, cur, end_calls, finished>>
                ELSE Completed(t, cur[t], span_data)
           ELSE Completed(t, cur[t], None)
    /\ end_snapshot' = [end_snapshot EXCEPT ![cur[t]] = Some(exporters)]
    /\ UNCHANGED <<default_sampler, start_log, exporters, exported, now>>

\* lines 149-160: one export_span call of the loop; after the last one the snapshot
\* goes to the span's store and the closure ends
EndExport(t) ==
    /\ pc[t] = "export"
    /\ exported' = Append(exported,
           [exporter |-> exporters[next_exp[t]], span |-> cur[t],
            data |-> Unwrap(snap[t])])
    /\ IF next_exp[t] < Len(exporters)
       THEN /\ next_exp' = [next_exp EXCEPT ![t] = @ + 1]
            /\ UNCHANGED <<spans, pc, cur, snap, end_calls, finished>>
       ELSE Completed(t, cur[t], snap[t])
    /\ UNCHANGED <<default_sampler, start_log, exporters, end_snapshot, now>>

\* time passes
Tick ==
    /\ now < MaxClock
    /\ now' = now + 1
    /\ UNCHANGED <<default_sampler, spans, start_log, exporters, exported, finished,
                   pc, cur, snap, next_exp, end_calls, end_snapshot>>

-----------------------------------------------------------------------------
(* propagation.rs: the binary format *)

\* `x as u8`
as_u8(x) == x % 256

\* to_binary, with the span-id tag at byte 18 left 0
to_binary_without_span_tag(sc) ==
    <<0, 0>> \o sc.trace_id \o <<0>> \o sc.span_id \o <<2, as_u8(sc.trace_options)>>

\* to_binary, with the options written without the cast to u8
to_binary_with_wide_options(sc) ==
    <<0, 0>> \o sc.trace_id \o <<1>> \o sc.span_id \o <<2, sc.trace_options>>

\* to_binary: 29 zero bytes, then the fields and their tags are written
to_binary(sc) ==
    <<0, 0>> \o sc.trace_id \o <<1>> \o sc.span_id \o <<2, as_u8(sc.trace_options)>>

\* a field test that forgets the tag
has_field_of_any_tag(b, size, tag) == Len(b) >= size

\* a field test that wants the options field to end the buffer
has_field_to_the_end(b, size, tag) ==
    (size = 2 => Len(b) = size) /\ Len(b) >= size /\ b[1] = tag

\* `b.len() >= size && b[0] == tag`
has_field(b, size, tag) == Len(b) >= size /\ b[1] = tag

\* `&b[n..]`
SliceFrom(b, n) == SubSeq(b, n + 1, Len(b))

from_binary(buf) ==
    IF buf = <<>> \/ buf[1] # 0 THEN None
    ELSE LET b1 == SliceFrom(buf, 1)
         IN  IF ~has_field(b1, 17, 0) THEN None
             ELSE LET trace_id == SubSeq(b1, 2, 17)
                      b2 == SliceFrom(b1, 17)
                  IN  IF ~has_field(b2, 9, 1) THEN None
                      ELSE LET span_id == SubSeq(b2, 2, 9)
                               b3 == SliceFrom(b2, 9)
                           IN  IF ~has_field(b3, 2, 2) THEN None
                               ELSE Some(SpanContextOf(trace_id, span_id, b3[2], None))

CodecIdle ==
    /\ codec_pc = "idle"
    /\ codec_sc = DefaultSpanContext
    /\ wire = <<>>
    /\ decoded = None
    /\ reencoded = None

\* to_binary is called on the context
Encode ==
    /\ codec_pc = "context"
    /\ wire' = to_binary(codec_sc)
    /\ codec_pc' = "encoded"
    /\ UNCHANGED <<codec_sc, decoded, reencoded>>

\* from_binary is called on the wire buffer: on what to_binary made or on bytes
\* that came from elsewhere
Decode ==
    /\ codec_pc \in {"encoded", "buffer"}
    /\ decoded' = from_binary(wire)
    /\ codec_pc' = IF codec_pc = "encoded" THEN "round_trip" ELSE "decoded"
    /\ UNCHANGED <<codec_sc, wire, reencoded>>

\* to_binary is called on the context that from_binary returned for the buffer
Reencode ==
    /\ codec_pc = "decoded"
    /\ decoded # None
    /\ reencoded' = Some(to_binary(Unwrap(decoded)))
    /\ codec_pc' = "reencoded"
    /\ UNCHANGED <<codec_sc, wire, decoded>>

\* a tracestate: foo=bar, as in tests::start_with_remote_parent_works
FooBar == (<<102, 111, 111>> :> <<98, 97, 114>>)

\* the contexts given to to_binary; trace options are a u32
CodecContexts ==
    {SpanContextOf(tid, sid, opts, ts) :
        tid \in {TID, HighTID}, sid \in {SID, SID2},
        opts \in {0, 1, 2, 255, 256, 257, 65793},
        ts \in {None, Some(FooBar)}}

\* valid_data of tests::test_from_binary
ValidData ==
    <<0, 0, 64, 65, 66, 67, 68, 69, 70, 71, 72, 73, 74, 75, 76, 77, 78, 79, 1, 97, 98,
      99, 100, 101, 102, 103, 104, 2, 1>>

\* the buffers given to from_binary: a well-formed one with one byte changed,
\* some bytes appended, and cut to any length
CodecBuffers ==
    {SubSeq([ValidData EXCEPT ![p] = v] \o [i \in 1..MaxExtra |-> 7], 1, n) :
        p \in {1, 2, 3, 18, 19, 27, 28, 29}, v \in {0, 1, 2, 3},
        n \in 0..(29 + MaxExtra)}

InitCodec ==
    /\ decoded = None
    /\ reencoded = None
    /\ \/ codec_pc = "context" /\ codec_sc \in CodecContexts /\ wire = <<>>
       \/ codec_pc = "buffer" /\ codec_sc = DefaultSpanContext /\ wire \in CodecBuffers

-----------------------------------------------------------------------------
(* spanbucket.rs: Bucket.  A record is a SpanData cut down to what the bucket   *)
(* looks at, its end time, and an id that tells the records apart.  Indices    *)
(* are the code's, from 0; buffer[i] of the code is buffer[i + 1] here.        *)

\* SAMPLE_PERIOD, in the unit of the clock
SAMPLE_PERIOD == 1

BucketOf(next_time, buffer, next_index, overflow) ==
    [next_time |-> next_time, buffer |-> buffer, next_index |-> next_index,
     overflow |-> overflow]

\* Vec::with_capacity(buffer_size): room is reserved, the Vec holds no element
with_capacity(buffer_size) == <<>>

\* Bucket::new
bucket_new(buffer_size, time) == BucketOf(time, with_capacity(buffer_size), 0, FALSE)

\* an add that moves next_time before it looks at the buffer
bucket_add_moving_next_time(b, s) ==
    IF s.end_time = None THEN b
    ELSE [b EXCEPT !.next_time = s.end_time[1] + SAMPLE_PERIOD]

\* Bucket::add
bucket_add(b, s) ==
    IF s.end_time = None \/ b.buffer = <<>> THEN b
    ELSE LET next == b.next_index + 1
             wraps == next = Len(b.buffer)
         IN  BucketOf(s.end_time[1] + SAMPLE_PERIOD,
                      [b.buffer EXCEPT ![b.next_index + 1] = s],
                      IF wraps THEN 0 ELSE next,
                      IF wraps THEN TRUE ELSE b.overflow)

\* Bucket::size
bucket_size(b) == IF b.overflow THEN Len(b.buffer) ELSE b.next_index

\* the index of the buffer that Bucket::span(idx) reads
span_index(b, idx) ==
    IF b.overflow THEN idx
    ELSE IF idx < Len(b.buffer) - b.next_index THEN b.next_index + idx
    ELSE b.next_index + idx - Len(b.buffer)

\* does buffer[i] exist? (else the index panics)
in_bounds(b, i) == 0 <= i /\ i < Len(b.buffer)

\* Bucket::span
bucket_span(b, idx) == b.buffer[span_index(b, idx) + 1]

\* the arguments of the span calls Bucket::resize(new_size) makes, in order
resize_reads(b, new_size) ==
    LET current_size == bucket_size(b)
    IN  IF current_size < new_size
        THEN [i \in 1..new_size |-> i - 1]
        ELSE [i \in 1..new_size |-> (i - 1) + current_size - new_size]

\* does Bucket::resize(new_size) panic on an index out of bounds?
resize_panics(b, new_size) ==
    \E i \in 1..new_size : ~in_bounds(b, span_index(b, resize_reads(b, new_size)[i]))

\* the bucket after a Bucket::resize(new_size) that does not panic
bucket_resize(b, new_size) ==
    LET current_size == bucket_size(b)
        reads == resize_reads(b, new_size)
        buffer == [i \in 1..new_size |-> bucket_span(b, reads[i])]
    IN  IF current_size < new_size
        THEN BucketOf(b.next_time, buffer, current_size, FALSE)
        ELSE BucketOf(b.next_time, buffer, 0, TRUE)

\* the records the bucket holds, oldest first: span(0), .., span(size - 1)
Contents(b) == [i \in 1..bucket_size(b) |-> bucket_span(b, i - 1)]

\* a slot that no add has written yet
Filler == [id |-> 0, end_time |-> None]

\* the k-th record given to a bucket
RecordOf(k) == [id |-> k, end_time |-> Some(k)]

\* a bucket with a buffer of len slots after Bucket::add of the records 1, .., k
RECURSIVE FilledBucket(_, _)
FilledBucket(len, k) ==
    IF k = 0 THEN BucketOf(0, [i \in 1..len |-> Filler], 0, FALSE)
    ELSE bucket_add(FilledBucket(len, k - 1), RecordOf(k))

InitSpanCall ==
    /\ span_prev = None
    /\ span_last = None

\* Bucket::span(idx) is called on the bucket b
SpanCall(b, idx) ==
    /\ span_prev' = span_last
    /\ span_last' = Some([bucket |-> b, idx |-> idx,
                          ret |-> IF in_bounds(b, span_index(b, idx))
                                  THEN Some(bucket_span(b, idx)) ELSE None])

InitBucket ==
    /\ bucket_state = "none"
    /\ bucket = BucketOf(0, <<>>, 0, FALSE)
    /\ bucket_hist = <<>>

BucketNew(buffer_size) ==
    /\ bucket_state = "none"
    /\ bucket_state' = "live"
    /\ bucket' = bucket_new(buffer_size, 0)
    /\ bucket_hist' = <<[op |-> "new", size |-> buffer_size, id |-> 0]>>

\* the ids of the records given to add so far
Offered == {bucket_hist[i].id : i \in {j \in 1..Len(bucket_hist) : bucket_hist[j].op \in {"add", "add_unended"}}}

\* add of the next record; records come in the order of their end times
BucketAdd(ended) ==
    /\ bucket_state = "live"
    /\ Len(bucket_hist) <= MaxBucketOps
    /\ LET id == Cardinality(Offered) + 1
           s == [id |-> id, end_time |-> IF ended THEN Some(id) ELSE None]
       IN  /\ bucket' = bucket_add(bucket, s)
           /\ bucket_hist' = Append(bucket_hist,
                  [op |-> IF ended THEN "add" ELSE "add_unended", size |-> 0, id |-> id])
    /\ UNCHANGED bucket_state

BucketResize(new_size) ==
    /\ bucket_state = "live"
    /\ Len(bucket_hist) <= MaxBucketOps
    /\ bucket_hist' = Append(bucket_hist, [op |-> "resize", size |-> new_size, id |-> 0])
    /\ IF resize_panics(bucket, new_size)
       THEN bucket_state' = "panicked" /\ UNCHANGED bucket
       ELSE bucket' = bucket_resize(bucket, new_size) /\ UNCHANGED bucket_state

\* DEFAULT_LATENCIES; a Duration is its number of microseconds
DEFAULT_LATENCIES == <<10, 100, 1000, 10000, 100000, 1000000, 10000000, 60000000>>

\* Duration::from_secs(u64::max_value()): beyond every Duration of the model
DurationMax == 2147483647

\* a latency_bucket that leaves a latency equal to a boundary below it
latency_bucket_strict(latency) ==
    Cardinality({i \in 1..Len(DEFAULT_LATENCIES) : latency > DEFAULT_LATENCIES[i]})

\* the loop of latency_bucket, entered with the counter at i
RECURSIVE latency_bucket_from(_, _)
latency_bucket_from(latency, i) ==
    IF i < Len(DEFAULT_LATENCIES) /\ latency >= DEFAULT_LATENCIES[i + 1]
    THEN latency_bucket_from(latency, i + 1)
    ELSE i

\* latency_bucket
latency_bucket(latency) == latency_bucket_from(latency, 0)

\* latency_bucket_bounds
latency_bucket_bounds(idx) ==
    IF idx = 0 THEN <<0, DEFAULT_LATENCIES[idx + 1]>>
    ELSE IF idx = Len(DEFAULT_LATENCIES) THEN <<DEFAULT_LATENCIES[idx], DurationMax>>
    ELSE <<DEFAULT_LATENCIES[idx], DEFAULT_LATENCIES[idx + 1]>>

InitLatency ==
    /\ lat_prev = None
    /\ lat_last = None

\* latency_bucket is called
LatencyBucket(latency) ==
    /\ lat_prev' = lat_last
    /\ lat_last' = Some([latency |-> latency, bucket |-> latency_bucket(latency)])

-----------------------------------------------------------------------------
(* tracestate.rs: a Key and a Value are the bytes of their strings, a          *)
(* Tracestate is its BTreeMap<Key, Value>, a function from its keys.           *)

\* KEY_MAX_SIZE and VALUE_MAX_SIZE
KEY_MAX_SIZE == 256
VALUE_MAX_SIZE == 256

\* MAX_KEY_VALUE_PAIRS
MAX_KEY_VALUE_PAIRS == 32

\* the bytes of the character classes: [a-z], [_0-9a-z-*/], and the two of
\* VALUE_FORMAT
LowerCase == 97..122
KeyChars == {95} \cup (48..57) \cup (97..122) \cup {45, 42, 47}
ValueChars == (32..43) \cup (45..60) \cup (62..126)
ValueLastChars == (33..43) \cup (45..60) \cup (62..126)

\* does all of s match [a-z][_0-9a-z-*/]{0,most} ?
MatchesKeyPart(s, most) ==
    /\ s # <<>>
    /\ s[1] \in LowerCase
    /\ Len(s) - 1 <= most
    /\ \A i \in 2..Len(s) : s[i] \in KeyChars

\* is_match of ^[a-z][_0-9a-z-*/]{0,255}$
KEY_WITHOUT_VENDOR_FORMAT(s) == MatchesKeyPart(s, 255)

\* is_match of ^[a-z][_0-9a-z-*/]{0,240}@[a-z][_0-9a-z-*/]{0,13}$
KEY_WITH_VENDOR_FORMAT(s) ==
    \E at \in 1..Len(s) :
        /\ s[at] = 64
        /\ MatchesKeyPart(SubSeq(s, 1, at - 1), 240)
        /\ MatchesKeyPart(SubSeq(s, at + 1, Len(s)), 13)

\* is_match of ^[\x20-\x2b\x2d-\x3c\x3e-\x7e]{0,255}[\x21-\x2b\x2d-\x3c\x3e-\x7e]$
VALUE_FORMAT(s) ==
    /\ s # <<>>
    /\ Len(s) - 1 <= 255
    /\ \A i \in 1..(Len(s) - 1) : s[i] \in ValueChars
    /\ s[Len(s)] \in ValueLastChars

\* Result values
Ok(v) == [tag |-> "Ok", val |-> v]
Err(e) == [tag |-> "Err", val |-> e]

\* a Key::try_new that looks at the format first
Key_try_new_format_first(key) ==
    IF ~(KEY_WITHOUT_VENDOR_FORMAT(key) \/ KEY_WITH_VENDOR_FORMAT(key))
    THEN Err("DoesNotMatchRegex")
    ELSE IF Len(key) > KEY_MAX_SIZE THEN Err("ExceedsMaxSize")
    ELSE Ok(key)

\* Key::try_new
Key_try_new(key) ==
    IF Len(key) > KEY_MAX_SIZE THEN Err("ExceedsMaxSize")
    ELSE IF ~(KEY_WITHOUT_VENDOR_FORMAT(key) \/ KEY_WITH_VENDOR_FORMAT(key))
    THEN Err("DoesNotMatchRegex")
    ELSE Ok(key)

\* Value::try_new
Value_try_new(value) ==
    IF Len(value) > VALUE_MAX_SIZE THEN Err("ExceedsMaxSize")
    ELSE IF ~VALUE_FORMAT(value) THEN Err("DoesNotMatchRegex")
    ELSE Ok(value)

InitKeyValue ==
    /\ kv_call = ""
    /\ kv_input = <<>>
    /\ kv_result = None

KeyTryNew(key) ==
    /\ kv_call' = "Key::try_new"
    /\ kv_input' = key
    /\ kv_result' = Some(Key_try_new(key))

ValueTryNew(value) ==
    /\ kv_call' = "Value::try_new"
    /\ kv_input' = value
    /\ kv_result' = Some(Value_try_new(value))

\* the keys and values of the tests: "hello", "foo", "world", "bar", "baz"
hello == <<104, 101, 108, 108, 111>>
foo == <<102, 111, 111>>
world == <<119, 111, 114, 108, 100>>
bar == <<98, 97, 114>>
baz == <<98, 97, 122>>

\* format!("a{}b", i) for i < 100
KeyOf(i) ==
    IF i < 10 THEN <<97, 48 + i, 98>>
    ELSE <<97, 48 + (i \div 10), 48 + (i % 10), 98>>

\* Ord of Key: the order of the strings, byte after byte
RECURSIVE KeyLess(_, _)
KeyLess(a, b) ==
    IF a = <<>> THEN b # <<>>
    ELSE IF b = <<>> THEN FALSE
    ELSE IF a[1] # b[1] THEN a[1] < b[1]
    ELSE KeyLess(Tail(a), Tail(b))

\* BTreeMap::new()
EmptyMap == <<>>

\* the keys of a slice of entries
KeysOf(entries) == {entries[i][1] : i \in 1..Len(entries)}

\* a map after the pairs of another map are put into it (BTreeMap's extend and
\* collect, fed from the iteration of a map, whose keys are all different)
extend(map, other) ==
    LET theirs == DOMAIN other
    IN  [k \in DOMAIN map \cup theirs |-> IF k \in theirs THEN other[k] ELSE map[k]]

\* a merge that keeps the value a key already has in the map
extend_from_slice_keeping_old(map, pairs) ==
    LET theirs == KeysOf(pairs)
    IN  [k \in DOMAIN map \cup theirs |->
            IF k \in DOMAIN map THEN map[k]
            ELSE pairs[CHOOSE i \in 1..Len(pairs) : pairs[i][1] = k][2]]

\* a map after the (key, value) pairs of a slice are put into it in order: the last
\* value given for a key stays
extend_from_slice(map, pairs) ==
    LET theirs == KeysOf(pairs)
    IN  [k \in DOMAIN map \cup theirs |->
            IF k \in theirs
            THEN LET last == CHOOSE i \in 1..Len(pairs) :
                         /\ pairs[i][1] = k
                         /\ \A j \in (i + 1)..Len(pairs) : pairs[j][1] # k
                 IN  pairs[last][2]
            ELSE map[k]]

\* iteration of a BTreeMap: its pairs in the order of their keys
iter(map) ==
    LET keys == DOMAIN map
        rank(k) == Cardinality({j \in keys : KeyLess(j, k)}) + 1
    IN  [i \in 1..Cardinality(keys) |->
            LET key == CHOOSE k \in keys : rank(k) = i IN <<key, map[key]>>]

\* Error values
MaxKeyValuePairsExceeded == [error |-> "MaxKeyValuePairsExceeded", duplicate |-> None]
DuplicateKey(k) == [error |-> "DuplicateKey", duplicate |-> Some(k)]

\* a test for duplicates that compares whole entries, key and value
contains_duplicate_entry(entries) ==
    LET repeats == {i \in 1..Len(entries) : \E j \in 1..(i - 1) : entries[j] = entries[i]}
    IN  IF repeats = {} THEN None
        ELSE Some(entries[CHOOSE i \in repeats : \A j \in repeats : i <= j][1])

\* contains_duplciate_key: the first key of the slice that an earlier entry has too
contains_duplciate_key(entries) ==
    LET repeats == {i \in 1..Len(entries) : \E j \in 1..(i - 1) : entries[j][1] = entries[i][1]}
    IN  IF repeats = {} THEN None
        ELSE Some(entries[CHOOSE i \in repeats : \A j \in repeats : i <= j][1])

\* Tracestate::add with the mutable self as a parameter: the Result, an Ok carrying
\* the new self
tracestate_add_counting_new_entries(self, entries) ==
    IF Len(entries) > MAX_KEY_VALUE_PAIRS
    THEN Err(MaxKeyValuePairsExceeded)
    ELSE Ok(extend_from_slice(extend(EmptyMap, self), entries))

tracestate_add(self, entries) ==
    LET combined == extend_from_slice(extend(EmptyMap, self), entries)
    IN  IF Cardinality(DOMAIN combined) > MAX_KEY_VALUE_PAIRS
        THEN Err(MaxKeyValuePairsExceeded)
        ELSE Ok(combined)

\* Tracestate::try_new
try_new(parent, entries) ==
    IF parent = None /\ entries = <<>> THEN Ok(EmptyMap)
    ELSE LET dup == contains_duplciate_key(entries)
         IN  IF dup # None THEN Err(DuplicateKey(Unwrap(dup)))
             ELSE LET tracestate ==
                          IF parent # None THEN extend(EmptyMap, Unwrap(parent))
                          ELSE EmptyMap
                  IN  tracestate_add(tracestate, entries)

\* Tracestate::entries
entries_of(tracestate) == iter(tracestate)

InitTracestate ==
    /\ ts_held = None
    /\ ts_parent = None
    /\ ts_entries = <<>>
    /\ ts_result = None

\* a call of Tracestate::try_new; the caller holds on to the Tracestate it gets
TryNew(parent, entries) ==
    LET r == try_new(parent, entries)
    IN  /\ ts_parent' = parent
        /\ ts_entries' = entries
        /\ ts_result' = Some(r)
        /\ ts_held' = IF r.tag = "Ok" THEN Some(r.val) ELSE ts_held

TryNewWithoutParent(entries) == TryNew(None, entries)

TryNewFromParent(entries) ==
    /\ ts_held # None
    /\ TryNew(ts_held, entries)

-----------------------------------------------------------------------------
(* spanstore.rs: the registry of span stores.  An Arc<SpanStore> is the index  *)
(* of its SpanStore in stores.                                                 *)

\* DEFAULT_BUCKET_SIZE
DEFAULT_BUCKET_SIZE == 10

\* DEFAULT_LATENCIES.len()
NumLatencies == 8

\* SpanStore::new
SpanStore_new(name, latency_bucket_size, error_bucket_size, time) ==
    [latency |-> [i \in 1..(NumLatencies + 1) |-> bucket_new(latency_bucket_size, time)],
     errors |-> <<>>,
     max_spans_per_error_bucket |-> error_bucket_size]

SpanNames == {"span0", "span1"}

\* span_store_for_name, under the read lock
span_store_for_name(name) == SPAN_STORES[name]

InitStores ==
    /\ SPAN_STORES = [n \in SpanNames |-> None]
    /\ stores = <<>>
    /\ store_pc = [t \in Threads |-> "idle"]
    /\ store_name = [t \in Threads |-> ""]
    /\ store_returns = <<>>

\* calls of the registry's functions begun so far
StoreCalls == Len(store_returns) + Cardinality({t \in Threads : store_pc[t] # "idle"})

ReturnOf(t, fn, name, value) == [thread |-> t, fn |-> fn, name |-> name, value |-> value]

\* a thread calls span_store_for_name
StoreLookup(t, name) ==
    /\ store_pc[t] = "idle"
    /\ StoreCalls < MaxStoreCalls
    /\ store_returns' = Append(store_returns,
           ReturnOf(t, "span_store_for_name", name, span_store_for_name(name)))
    /\ UNCHANGED <<SPAN_STORES, stores, store_pc, store_name>>

\* span_store_for_name_create_if_new up to the match: the lookup under the read
\* lock, which is given up when span_store_for_name returns
CreateIfNewLookup(t, name) ==
    /\ store_pc[t] = "idle"
    /\ StoreCalls < MaxStoreCalls
    /\ LET found == span_store_for_name(name)
       IN  IF found # None
           THEN /\ store_returns' = Append(store_returns,
                       ReturnOf(t, "span_store_for_name_create_if_new", name, found))
                /\ UNCHANGED <<store_pc, store_name>>
           ELSE /\ store_pc' = [store_pc EXCEPT ![t] = "create"]
                /\ store_name' = [store_name EXCEPT ![t] = name]
                /\ UNCHANGED store_returns
    /\ UNCHANGED <<SPAN_STORES, stores>>

\* the None arm, under the write lock: a new store is made and put in the registry
CreateIfNewInsert(t) ==
    /\ store_pc[t] = "create"
    /\ LET name == store_name[t]
           store == Len(stores) + 1
       IN  /\ stores' = Append(stores,
                  [name |-> name,
                   store |-> SpanStore_new(name, DEFAULT_BUCKET_SIZE, DEFAULT_BUCKET_SIZE, now)])
           /\ SPAN_STORES' = [SPAN_STORES EXCEPT ![name] = Some(store)]
           /\ store_returns' = Append(store_returns,
                  ReturnOf(t, "span_store_for_name_create_if_new", name, Some(store)))
    /\ store_pc' = [store_pc EXCEPT ![t] = "idle"]
    /\ store_name' = [store_name EXCEPT ![t] = ""]

-----------------------------------------------------------------------------
(* spanstore.rs: one SpanStore.  An Instant is a number of seconds, a Duration  *)
(* a number of microseconds; errors is a function from the status codes that   *)
(* have a bucket.  A call of finished is written down with the Bucket::new and *)
(* Bucket::add calls it makes.                                                 *)

\* some of the StatusCode values
StatusCodes == {"OK", "Cancelled", "Unknown", "NotFound"}

\* Instant::duration_since
duration_since(later, earlier) == (later - earlier) * 1000000

\* a call finished makes: Bucket::new(size), or add on the bucket named
BucketCall(fn, which, size) == [fn |-> fn, bucket |-> which, size |-> size]

\* a finished that takes StatusCode::default() for a span without status
SpanStore_finished_with_default_code(contents, sd, time) ==
    LET end_time == IF sd.end_time # None THEN Unwrap(sd.end_time) ELSE time
        latency == duration_since(end_time, sd.start_time)
        code == IF sd.status # None THEN Unwrap(sd.status).code ELSE "OK"
    IN  IF code = "OK"
        THEN LET i == latency_bucket(latency)
             IN  [contents |-> [contents EXCEPT !.latency[i + 1] = bucket_add(@, sd)],
                  calls |-> <<BucketCall("add", <<"latency", i>>, 0)>>]
        ELSE IF code \in DOMAIN contents.errors
        THEN [contents |-> [contents EXCEPT !.errors[code] = bucket_add(@, sd)],
              calls |-> <<BucketCall("add", <<"errors", code>>, 0)>>]
        ELSE LET size == contents.max_spans_per_error_bucket
                 made == bucket_add(bucket_new(size, time), sd)
             IN  [contents |-> [contents EXCEPT !.errors = (code :> made) @@ @],
                  calls |-> <<BucketCall("new", <<"errors", code>>, size),
                              BucketCall("add", <<"errors", code>>, 0)>>]

\* SpanStore::finished, called at the instant time: the contents it leaves and the
\* calls it makes on buckets
SpanStore_finished(contents, sd, time) ==
    LET end_time == IF sd.end_time # None THEN Unwrap(sd.end_time) ELSE time
        latency == duration_since(end_time, sd.start_time)
        code == IF sd.status # None THEN Unwrap(sd.status).code ELSE "Unknown"
    IN  IF code = "OK"
        THEN LET i == latency_bucket(latency)
             IN  [contents |-> [contents EXCEPT !.latency[i + 1] = bucket_add(@, sd)],
                  calls |-> <<BucketCall("add", <<"latency", i>>, 0)>>]
        ELSE IF code \in DOMAIN contents.errors
        THEN [contents |-> [contents EXCEPT !.errors[code] = bucket_add(@, sd)],
              calls |-> <<BucketCall("add", <<"errors", code>>, 0)>>]
        ELSE LET size == contents.max_spans_per_error_bucket
                 made == bucket_add(bucket_new(size, time), sd)
             IN  [contents |-> [contents EXCEPT !.errors = (code :> made) @@ @],
                  calls |-> <<BucketCall("new", <<"errors", code>>, size),
                              BucketCall("add", <<"errors", code>>, 0)>>]

\* does SpanStore::resize panic in one of the Bucket::resize calls it makes?
SpanStore_resize_panics(contents, latency_bucket_size, error_bucket_size) ==
    \/ \E i \in 1..Len(contents.latency) :
           resize_panics(contents.latency[i], latency_bucket_size)
    \/ \E code \in DOMAIN contents.errors :
           resize_panics(contents.errors[code], error_bucket_size)

\* the contents after a SpanStore::resize that does not panic
SpanStore_resize(contents, latency_bucket_size, error_bucket_size) ==
    [latency |-> [i \in 1..Len(contents.latency) |->
                     bucket_resize(contents.latency[i], latency_bucket_size)],
     errors |-> [code \in DOMAIN contents.errors |->
                    bucket_resize(contents.errors[code], error_bucket_size)],
     max_spans_per_error_bucket |-> error_bucket_size]

\* the instant at which the calls on the store are made
StoreNow == 60

InitSpanStore ==
    /\ ss_state = "none"
    /\ ss = SpanStore_new("", 0, 0, 0)
    /\ ss_before = ss
    /\ ss_call = None
    /\ ss_ops = 0

StoreNew(name, latency_bucket_size, error_bucket_size) ==
    /\ ss_state = "none"
    /\ ss_state' = "live"
    /\ ss' = SpanStore_new(name, latency_bucket_size, error_bucket_size, StoreNow)
    /\ ss_before' = ss'
    /\ UNCHANGED <<ss_call, ss_ops>>

StoreResize(latency_bucket_size, error_bucket_size) ==
    /\ ss_state = "live"
    /\ ss_ops < MaxStoreOps
    /\ ss_ops' = ss_ops + 1
    /\ ss_call' = None
    /\ IF SpanStore_resize_panics(ss, latency_bucket_size, error_bucket_size)
       THEN ss_state' = "panicked" /\ UNCHANGED <<ss, ss_before>>
       ELSE /\ ss' = SpanStore_resize(ss, latency_bucket_size, error_bucket_size)
            /\ ss_before' = ss'
            /\ UNCHANGED ss_state

\* finished is called with the SpanData sd
StoreFinished(sd) ==
    /\ ss_state = "live"
    /\ ss_ops < MaxStoreOps
    /\ ss_ops' = ss_ops + 1
    /\ LET r == SpanStore_finished(ss, sd, StoreNow)
       IN  /\ ss' = r.contents
           /\ ss_call' = Some([sd |-> sd, calls |-> r.calls])
    /\ ss_before' = ss
    /\ UNCHANGED ss_state

-----------------------------------------------------------------------------
(* The span life cycle: starts as the tests of trace.rs make them, exporters  *)
(* coming and going, and threads ending the spans and their clones.           *)

SpanKinds == {"Unspecified", "Server", "Client"}

\* the remote parent of tests::span_data::make_helpers, sampled or not
TestParent(opts) == SpanContextOf(TID, SID, opts, None)

InitSpans ==
    /\ default_sampler = DEFAULT_SAMPLER
    /\ spans = <<>>
    /\ start_log = <<>>
    /\ exporters = <<>>
    /\ exported = <<>>
    /\ finished = <<>>
    /\ pc = [t \in Threads |-> "idle"]
    /\ cur = [t \in Threads |-> 0]
    /\ snap = [t \in Threads |-> None]
    /\ next_exp = [t \in Threads |-> 0]
    /\ end_calls = <<>>
    /\ end_snapshot = <<>>
    /\ now = 0

NextSpans ==
    \/ \E opts \in {0, 1} :
          /\ Len(spans) < MaxSpans
          /\ StartWithRemoteParent("span0", TestParent(opts),
                                StartOptionsOf(None, "Unspecified"), SID2)
    \/ \E e \in Exporters : register_exporter(e)
    \/ \E e \in Exporters : unregister_exporter(e)
    \/ \E t \in Threads, s \in 1..Len(spans) : EndCall(t, s)
    \/ \E t \in Threads : EndWait(t)
    \/ \E t \in Threads : EndLock(t)
    \/ \E t \in Threads : EndExport(t)
    \/ Tick

Init ==
    /\ InitSpans /\ InitRegistryCall /\ CodecIdle /\ InitBucket /\ InitTracestate
    /\ InitStores /\ InitSampler /\ InitKeyValue /\ InitLatency /\ InitSpanStore
    /\ InitMutators
    /\ InitSpanCall

Next ==
    NextSpans /\ UNCHANGED <<registry_call, codec_vars, bucket_vars, ts_vars, store_vars,
                             sampler_vars, kv_vars, latency_vars,
          finish_vars,
          mut_log,
          spancall_vars>>

Spec == Init /\ [][Next]_vars

\* the export_span calls made on exporter e for span s
ExportCalls(e, s) ==
    {i \in 1..Len(exported) : exported[i].exporter = e /\ exported[i].span = s}

\* C1: however often and from however many threads end is called on a recording
\* span and its clones, no exporter gets the span twice, and once the end has run
\* every exporter that was registered when it ran has got the span exactly once.
C1_ExportedExactlyOnce ==
    \A s \in 1..Len(spans), e \in Exporters :
        /\ Cardinality(ExportCalls(e, s)) <= 1
        /\ (spans[s].end_once = "complete" /\ InSeq(e, Unwrap(end_snapshot[s])))
              => Cardinality(ExportCalls(e, s)) = 1

\* C1 happens: two end calls on one recording span have returned, and the one that
\* ran the body found two exporters registered
C1_Witness ==
    \E s \in 1..Len(spans) :
        /\ is_recording_events(spans[s])
        /\ end_calls[s] >= 2
        /\ spans[s].end_once = "complete"
        /\ Len(Unwrap(end_snapshot[s])) = 2
        /\ \A e \in Exporters : Cardinality(ExportCalls(e, s)) = 1

\* the SpanStore::finished calls made for span s
FinishedCalls(s) == {i \in 1..Len(finished) : finished[i].span = s}

\* C14: once an end call on a recording span has returned, the span's snapshot has
\* gone to finished of the span's store exactly once.
C14_EndInsertsIntoStore ==
    \A s \in 1..Len(spans) :
        (is_recording_events(spans[s]) /\ end_calls[s] >= 1)
            => /\ IsSome(spans[s].span_store)
               /\ Cardinality(FinishedCalls(s)) = 1

-----------------------------------------------------------------------------
(* Span starts alone, following one trace: its first span has no parent or a  *)
(* remote one, the later ones are local descendants; every per-call sampler,  *)
(* the ids an id generator may hand out, and the global default sampler       *)
(* changing at any time.                                                      *)

\* the samplers set_global_default_sampler is called with
GlobalSamplers == {always_sample, never_sample, DEFAULT_SAMPLER}

\* the samplers with_sampler is called with
CallSamplers == {always_sample, never_sample, probability_sampler(2)}

StartOptionSet ==
    {StartOptionsOf(s, "Unspecified") : s \in {None} \cup {Some(x) : x \in CallSamplers}}

RemoteContexts ==
    {SpanContextOf(TID, SID, opts, None) : opts \in {0, 1, 3}}
    \cup {SpanContextOf(HighTID, SID2, 0, Some(FooBar))}

\* what new_trace_id and new_span_id of an installed generator may return
GenTraceIDs == {TID, HighTID}
GenSpanIDs == {SID, SID2}

NextStart ==
    \/ \E s \in GlobalSamplers : set_global_default_sampler(s)
    \/ \E o \in StartOptionSet, tid \in GenTraceIDs, sid \in GenSpanIDs :
          /\ spans = <<>>
          /\ StartRoot("foo", o, tid, sid)
    \/ \E j \in 1..Len(spans), o \in StartOptionSet, sid \in GenSpanIDs :
          /\ Len(spans) < MaxStarts
          /\ StartChild(j, "foo", o, sid)
    \/ \E c \in RemoteContexts, o \in StartOptionSet, sid \in GenSpanIDs :
          /\ spans = <<>>
          /\ StartWithRemoteParent("foo", c, o, sid)

SpecStart ==
    /\ Init
    /\ [][NextStart /\ UNCHANGED <<registry_call, codec_vars, bucket_vars, ts_vars,
                                     store_vars,
         sampler_vars, kv_vars, latency_vars,
          finish_vars,
          mut_log,
          spancall_vars>>]_vars

SpanSampled(i) == is_sampled(spans[i].span_context.trace_options)

\* C2: the sampler is called on a start exactly when there is no parent, the parent
\* is remote or a per-call sampler was given; the call is then made on the per-call
\* sampler if there is one and on the global default sampler otherwise, and its
\* decision is the span's sampled bit.
C2_SamplerConsulted ==
    \A i \in 1..Len(spans) :
        LET l == start_log[i]
            wanted == l.parent = None \/ l.remote_parent \/ l.o.sampler # None
            decider == IF l.o.sampler # None THEN l.o.sampler[1] ELSE l.cfg_sampler
            params == [parent_context |-> l.parent,
                       trace_id |-> spans[i].span_context.trace_id,
                       span_id |-> spans[i].span_context.span_id,
                       name |-> l.name,
                       has_remote_parent |-> l.remote_parent]
        IN  /\ Len(l.sampler_calls) = (IF wanted THEN 1 ELSE 0)
            /\ wanted =>
                 /\ l.sampler_calls[1].sampler = decider
                 /\ l.sampler_calls[1].params = params
                 /\ SpanSampled(i) = Sample(decider, params)

\* C2 happens: never_sample given on the start of a child of a sampled local parent
\* makes an unsampled child, and so it does under a sampled remote parent
C2_Witness ==
    /\ \E i \in 1..Len(spans) :
          /\ start_log[i].parent_span # 0
          /\ SpanSampled(start_log[i].parent_span)
          /\ start_log[i].o.sampler = Some(never_sample)
          /\ ~SpanSampled(i)

\* C3: a span started under a local parent with no per-call sampler has the sampled
\* bit of its parent.
C3_LocalChildInherits ==
    \A i \in 1..Len(spans) :
        (start_log[i].parent_span # 0 /\ start_log[i].o.sampler = None)
            => SpanSampled(i) = SpanSampled(start_log[i].parent_span)

\* C3 happens: the global default sampler was changed between the two starts and
\* would have decided against the parent's bit
C3_Witness ==
    \E i \in 1..Len(spans) :
        LET l == start_log[i]
        IN  /\ l.parent_span # 0
            /\ l.o.sampler = None
            /\ l.cfg_sampler # start_log[l.parent_span].cfg_sampler
            /\ Sample(l.cfg_sampler,
                      SamplingParametersOf(l.parent, spans[i].span_context, l.name, FALSE))
                 # SpanSampled(l.parent_span)
            /\ SpanSampled(i) = SpanSampled(l.parent_span)

-----------------------------------------------------------------------------
(* The codec alone: a context is encoded and decoded again, or a buffer that  *)
(* came from elsewhere is decoded.                                            *)

NextCodec == Encode \/ Decode \/ Reencode

InitCodecAlone ==
    /\ InitCodec /\ InitSpans /\ InitRegistryCall /\ InitBucket /\ InitTracestate
    /\ InitStores /\ InitSampler /\ InitKeyValue /\ InitLatency /\ InitSpanStore
    /\ InitMutators
    /\ InitSpanCall

SpecCodec ==
    /\ InitCodecAlone
    /\ [][NextCodec /\ UNCHANGED <<span_vars, registry_call, bucket_vars, ts_vars,
                                     store_vars,
         sampler_vars, kv_vars, latency_vars,
          finish_vars,
          mut_log,
          spancall_vars>>]_vars

\* C4: a context whose trace options fit in a byte comes back from
\* from_binary(to_binary(ctx)) with its trace id, span id and trace options, and
\* with no tracestate.
C4_RoundTrip ==
    (codec_pc = "round_trip" /\ codec_sc.trace_options < 256)
        => decoded = Some(SpanContextOf(codec_sc.trace_id, codec_sc.span_id,
                                        codec_sc.trace_options, None))

\* C4 happens: a context with options 255 and a tracestate has made the round trip
C4_Witness ==
    /\ codec_pc = "round_trip"
    /\ codec_sc.trace_options = 255
    /\ codec_sc.trace_state # None
    /\ decoded # None
    /\ decoded[1].trace_state = None

\* a buffer from_binary has to refuse
Malformed(b) ==
    \/ Len(b) < 29
    \/ b[1] # 0
    \/ b[2] # 0
    \/ b[19] # 1
    \/ b[28] # 2

\* C5: from_binary returns None for a buffer that is empty, too short for the three
\* fields, or has a wrong version byte or a wrong tag at byte 1, 18 or 27 (counted
\* from 0).
C5_DecodeRejects ==
    (codec_pc = "decoded" /\ Malformed(wire)) => decoded = None

\* C5 happens: a buffer of full length whose only fault is the trace-options tag
\* has been refused
C5_Witness ==
    /\ codec_pc = "decoded"
    /\ Len(wire) >= 29
    /\ wire[1] = 0 /\ wire[2] = 0 /\ wire[19] = 1
    /\ wire[28] # 2
    /\ decoded = None

\* C17: what to_binary returns is 29 bytes: 0, 0, the 16 bytes of the trace id, 1,
\* the 8 bytes of the span id, 2, and the trace options mod 256, whatever the
\* tracestate is.
C17_EncodedLayout ==
    codec_pc \in {"encoded", "round_trip"}
        => /\ Len(wire) = 29
           /\ wire[1] = 0
           /\ wire[2] = 0
           /\ SubSeq(wire, 3, 18) = codec_sc.trace_id
           /\ wire[19] = 1
           /\ SubSeq(wire, 20, 27) = codec_sc.span_id
           /\ wire[28] = 2
           /\ wire[29] = codec_sc.trace_options % 256
           /\ \A i \in 1..29 : wire[i] \in 0..255

\* a context with a tracestate and options beyond one byte has been encoded
C17_Witness ==
    /\ codec_pc = "encoded"
    /\ codec_sc.trace_state = Some(FooBar)
    /\ codec_sc.trace_options = 65793
    /\ wire[29] = 1
    /\ Len(wire) = 29

-----------------------------------------------------------------------------
(* One bucket: made by Bucket::new, then given records and resized.           *)

NextBucket ==
    \/ \E n \in 0..MaxCap : BucketNew(n)
    \/ \E ended \in BOOLEAN : BucketAdd(ended)
    \/ \E n \in 0..MaxCap : BucketResize(n)

SpecBucket ==
    /\ Init
    /\ [][NextBucket /\ UNCHANGED <<span_vars, registry_call, codec_vars, ts_vars,
                                      store_vars,
         sampler_vars, kv_vars, latency_vars,
          finish_vars,
          mut_log,
          spancall_vars>>]_vars

\* the ids of the last n records of the history that had an end time, oldest first
EndedIds == SelectSeq([i \in 1..Len(bucket_hist) |-> bucket_hist[i]], LAMBDA h : h.op = "add")
LastIds(n) ==
    LET k == Len(EndedIds)
        m == IF n < k THEN n ELSE k
    IN  [i \in 1..m |-> EndedIds[k - m + i].id]

ContentIds(b) == [i \in 1..Len(Contents(b)) |-> Contents(b)[i].id]

\* the history is new(n) followed by adds of records with an end time
OnlyEndedAdds(hist) == \A i \in 2..Len(hist) : hist[i].op = "add"

\* C7: a bucket made with capacity n > 0 and then given k records with end times
\* holds the last min(k, n) of them, oldest first.
C7_AcceptsEveryRecord ==
    (/\ bucket_state # "none"
     /\ bucket_hist[1].size > 0
     /\ OnlyEndedAdds(bucket_hist))
        => /\ bucket_state = "live"
           /\ ContentIds(bucket) = LastIds(bucket_hist[1].size)

\* C6: a bucket made with capacity n, given more than n records with end times and
\* then resized to m <= n holds the last m of them, oldest first, with the cursor at
\* 0 and the overflow flag set.
C6_ResizeKeepsMostRecent ==
    LET k == Len(bucket_hist)
    IN  (/\ bucket_state # "none"
         /\ k >= 3
         /\ bucket_hist[k].op = "resize"
         /\ OnlyEndedAdds(SubSeq(bucket_hist, 1, k - 1))
         /\ k - 2 > bucket_hist[1].size
         /\ bucket_hist[k].size <= bucket_hist[1].size)
            => /\ bucket_state = "live"
               /\ ContentIds(bucket) = LastIds(bucket_hist[k].size)
               /\ bucket.next_index = 0
               /\ bucket.overflow

-----------------------------------------------------------------------------
(* Tracestates derived one from another: entry lists written out by hand over  *)
(* a few keys, and the long lists of the tests around the limit.               *)

EntryPairs ==
    {<<hello, world>>, <<hello, baz>>, <<foo, bar>>,
     <<KeyOf(MAX_KEY_VALUE_PAIRS - 1), world>>, <<KeyOf(MAX_KEY_VALUE_PAIRS), world>>}

ShortLists == UNION {[1..n -> EntryPairs] : n \in 0..MaxEntries}

\* (a0b, world), .., (a{n-1}b, world)
LongList(n) == [i \in 1..n |-> <<KeyOf(i - 1), world>>]

LongLists ==
    {LongList(n) : n \in {MAX_KEY_VALUE_PAIRS - 1, MAX_KEY_VALUE_PAIRS, MAX_KEY_VALUE_PAIRS + 1}}

\* a long list that ends with its first key once more
LongListWithRepeat == Append(LongList(MAX_KEY_VALUE_PAIRS), <<KeyOf(0), baz>>)

NextTracestate ==
    \/ \E entries \in ShortLists \cup LongLists \cup {LongListWithRepeat} :
          TryNewWithoutParent(entries)
    \/ \E entries \in ShortLists : TryNewFromParent(entries)

SpecTracestate ==
    /\ Init
    /\ [][NextTracestate /\ UNCHANGED <<span_vars, registry_call, codec_vars, bucket_vars,
                                          store_vars,
         sampler_vars, kv_vars, latency_vars,
          finish_vars,
          mut_log,
          spancall_vars>>]_vars

\* the keys of the parent and of the entries of the last call, together
CallKeys == (IF ts_parent = None THEN {} ELSE DOMAIN Unwrap(ts_parent)) \cup KeysOf(ts_entries)

\* C8: in the enumeration of a Tracestate that try_new returned, the entries given
\* to the call (new or overwriting a key of the parent) come before the entries
\* that are only inherited from the parent.
C8_RecentFirst ==
    (ts_result # None /\ Unwrap(ts_result).tag = "Ok")
        => LET out == entries_of(Unwrap(ts_result).val)
           IN  \A i, j \in 1..Len(out) :
                   (i < j /\ out[j][1] \in KeysOf(ts_entries))
                       => out[i][1] \in KeysOf(ts_entries)

\* C9 as stated: a returned Tracestate has at most 32 keys; more than 32 distinct
\* keys in parent and entries together make the call fail with
\* MaxKeyValuePairsExceeded, the caller still holding the parent as it was; exactly
\* 32 make it succeed.
C9_AsStated ==
    ts_result # None
        => LET r == Unwrap(ts_result)
               n == Cardinality(CallKeys)
           IN  /\ r.tag = "Ok" => Cardinality(DOMAIN r.val) <= MAX_KEY_VALUE_PAIRS
               /\ n > MAX_KEY_VALUE_PAIRS
                      => /\ r.tag = "Err" /\ r.val = MaxKeyValuePairsExceeded
                         /\ ts_parent # None => ts_held = ts_parent
               /\ n = MAX_KEY_VALUE_PAIRS => r.tag = "Ok"

\* C9 amended: a returned Tracestate has at most 32 keys; when no key is twice in
\* the entries, more than 32 distinct keys in parent and entries together make the
\* call fail with MaxKeyValuePairsExceeded, the caller still holding the parent as
\* it was, and exactly 32 make it succeed with those 32 keys.
C9_AtMost32Keys ==
    ts_result # None
        => LET r == Unwrap(ts_result)
               n == Cardinality(CallKeys)
               distinct == Cardinality(KeysOf(ts_entries)) = Len(ts_entries)
           IN  /\ r.tag = "Ok" => Cardinality(DOMAIN r.val) <= MAX_KEY_VALUE_PAIRS
               /\ (distinct /\ n > MAX_KEY_VALUE_PAIRS)
                      => /\ r.tag = "Err" /\ r.val = MaxKeyValuePairsExceeded
                         /\ ts_parent # None => ts_held = ts_parent
               /\ (distinct /\ n = MAX_KEY_VALUE_PAIRS)
                      => r.tag = "Ok" /\ DOMAIN r.val = CallKeys

\* a parent of 32 keys was given one more key and the call failed
C9_Witness ==
    /\ ts_result # None
    /\ ts_parent # None
    /\ Cardinality(DOMAIN Unwrap(ts_parent)) = MAX_KEY_VALUE_PAIRS
    /\ Cardinality(CallKeys) = MAX_KEY_VALUE_PAIRS + 1
    /\ Len(ts_entries) = 1
    /\ Unwrap(ts_result) = Err(MaxKeyValuePairsExceeded)
    /\ ts_held = ts_parent

\* the keys that two entries of the last call have
RepeatedKeys ==
    {ts_entries[i][1] : i \in {j \in 1..Len(ts_entries) :
                                  \E k \in 1..(j - 1) : ts_entries[k][1] = ts_entries[j][1]}}

\* C18: when two of the entries given to try_new have the same key, with or without
\* a parent, the call fails with DuplicateKey of a key that two entries have.
C18_DuplicateKeyRejected ==
    (ts_result # None /\ RepeatedKeys # {})
        => /\ Unwrap(ts_result).tag = "Err"
           /\ \E k \in RepeatedKeys : Unwrap(ts_result).val = DuplicateKey(k)

\* a parent was given two entries of one key with different values, and the call
\* failed with DuplicateKey of that key
C18_Witness ==
    /\ ts_result # None
    /\ ts_parent # None
    /\ Len(ts_entries) = 2
    /\ ts_entries[1][1] = hello /\ ts_entries[2][1] = hello
    /\ ts_entries[1][2] # ts_entries[2][2]
    /\ Unwrap(ts_result) = Err(DuplicateKey(hello))

\* C19: when no two entries have the same key and parent and entries together have
\* at most 32 keys, try_new returns a Tracestate whose keys are those of the parent
\* and of the entries; a key of the entries has the value the entries give it, any
\* other key the value the parent gives it.
C19_MergeOverwrites ==
    (ts_result # None /\ RepeatedKeys = {} /\ Cardinality(CallKeys) <= MAX_KEY_VALUE_PAIRS)
        => LET r == Unwrap(ts_result)
           IN  /\ r.tag = "Ok"
               /\ DOMAIN r.val = CallKeys
               /\ \A i \in 1..Len(ts_entries) : r.val[ts_entries[i][1]] = ts_entries[i][2]
               /\ \A k \in CallKeys \ KeysOf(ts_entries) : r.val[k] = Unwrap(ts_parent)[k]

\* a parent of 32 keys was given another value for one of its keys, and the call
\* returned a Tracestate of 32 keys with the new value
C19_Witness ==
    /\ ts_result # None
    /\ ts_parent # None
    /\ Cardinality(DOMAIN Unwrap(ts_parent)) = MAX_KEY_VALUE_PAIRS
    /\ Len(ts_entries) = 1
    /\ ts_entries[1][1] \in DOMAIN Unwrap(ts_parent)
    /\ Unwrap(ts_parent)[ts_entries[1][1]] # ts_entries[1][2]
    /\ Unwrap(ts_result).tag = "Ok"
    /\ Cardinality(DOMAIN Unwrap(ts_result).val) = MAX_KEY_VALUE_PAIRS
    /\ Unwrap(ts_result).val[ts_entries[1][1]] = ts_entries[1][2]

-----------------------------------------------------------------------------
(* The registry alone: threads look names up and ask for their stores.        *)

NextStores ==
    \/ \E t \in Threads, name \in SpanNames : StoreLookup(t, name)
    \/ \E t \in Threads, name \in SpanNames : CreateIfNewLookup(t, name)
    \/ \E t \in Threads : CreateIfNewInsert(t)

SpecStores ==
    /\ Init
    /\ [][NextStores /\ UNCHANGED <<span_vars, registry_call, codec_vars, bucket_vars,
                                      ts_vars, sampler_vars, kv_vars, latency_vars,
          finish_vars,
          mut_log,
          spancall_vars>>]_vars

\* the stores made for a name
StoresFor(name) == {i \in 1..Len(stores) : stores[i].name = name}

\* C10: at most one SpanStore is ever made for a name, every call of
\* span_store_for_name_create_if_new for the name returns that one, and so does
\* every span_store_for_name made after such a call has returned.
C10_OneStorePerName ==
    \A name \in SpanNames :
        /\ Cardinality(StoresFor(name)) <= 1
        /\ \A i, j \in 1..Len(store_returns) :
               (/\ i < j
                /\ store_returns[i].name = name
                /\ store_returns[j].name = name
                /\ store_returns[i].fn = "span_store_for_name_create_if_new")
                   => /\ store_returns[j].value = store_returns[i].value
                      /\ Unwrap(store_returns[i].value) \in StoresFor(name)

-----------------------------------------------------------------------------
(* The exporter registry: exporters are registered and unregistered, each call  *)
(* written down, while one thread starts spans and ends them.                    *)

NextRegistry ==
    \/ \E e \in Exporters : RegisterCall(e)
    \/ \E e \in Exporters : UnregisterCall(e)
    \/ \E opts \in {0, 1} :
          /\ Len(spans) < MaxSpans
          /\ StartWithRemoteParent("span0", TestParent(opts),
                                   StartOptionsOf(None, "Unspecified"), SID2)
          /\ UNCHANGED registry_call
    \/ \E s \in 1..Len(spans) : EndCall(1, s) /\ UNCHANGED registry_call
    \/ EndLock(1) /\ UNCHANGED registry_call
    \/ EndExport(1) /\ UNCHANGED registry_call

SpecRegistry ==
    /\ Init
    /\ [][NextRegistry /\ UNCHANGED <<codec_vars, bucket_vars, ts_vars, store_vars,
         sampler_vars, kv_vars, latency_vars,
          finish_vars,
          mut_log,
          spancall_vars>>]_vars

\* the list without e
Without(list, e) == SelectSeq(list, LAMBDA x : x # e)

\* the spans whose end took the registry's read guard when the registry was list
EndedWith(list) ==
    {s \in 1..Len(spans) : end_snapshot[s] # None /\ Unwrap(end_snapshot[s]) = list}

\* C11: after unregister_exporter(e) for a registered e the registry is what it was
\* without e: e is gone and every other exporter is still there, in its place.
C11_UnregisterRemovesOnlyE ==
    (registry_call.fn = "unregister_exporter"
     /\ InSeq(registry_call.e, registry_call.before))
        => exporters = Without(registry_call.before, registry_call.e)

\* C12: unregister_exporter(e) for an e that is not registered leaves the registry
\* as it was.
C12_UnregisterAbsentIsNoOp ==
    (registry_call.fn = "unregister_exporter"
     /\ ~InSeq(registry_call.e, registry_call.before))
        => exporters = registry_call.before

\* C13: register_exporter(e) for a registered e leaves the registry as it was; no
\* exporter is in the registry twice and none gets an ended span twice.
C13_RegisterIdempotent ==
    /\ (registry_call.fn = "register_exporter"
        /\ InSeq(registry_call.e, registry_call.before))
           => exporters = registry_call.before
    /\ \A i, j \in 1..Len(exporters) : exporters[i] = exporters[j] => i = j
    /\ \A e \in Exporters, s \in 1..Len(spans) : Cardinality(ExportCalls(e, s)) <= 1

\* a registered exporter was registered again with another one present, and a span
\* ended after that has gone to each of the two once
C13_Witness ==
    /\ registry_call.fn = "register_exporter"
    /\ InSeq(registry_call.e, registry_call.before)
    /\ Len(registry_call.before) = 2
    /\ \E s \in EndedWith(exporters) :
           /\ spans[s].end_once = "complete"
           /\ \A e \in Exporters : Cardinality(ExportCalls(e, s)) = 1

-----------------------------------------------------------------------------
(* A sampler alone: built for a fraction, then called again and again.           *)

\* TID with other bytes in its second half
TIDOtherTail == SubSeq(TID, 1, 8) \o <<255, 254, 253, 252, 251, 250, 249, 248>>

\* trace ids whose first 8 bytes, shifted right by one, are 2^62 and 2^62 - 1
HalfTID == <<128, 0, 0, 0, 0, 0, 0, 0>> \o SubSeq(TID, 9, 16)
BelowHalfTID == <<127, 255, 255, 255, 255, 255, 255, 255>> \o SubSeq(TID, 9, 16)

SamplerTraceIDs == {TID, TIDOtherTail, HighTID, Zero16, HalfTID, BelowHalfTID}

SamplerParents ==
    {None} \cup {Some(SpanContextOf(TID, SID, opts, None)) : opts \in {0, 1, 2}}

\* the span id, the name and the remote-parent flag of a call
SamplerRest == {<<SID, "span0", FALSE>>, <<SID2, "span1", TRUE>>}

SamplerParameters ==
    {[parent_context |-> parent, trace_id |-> tid, span_id |-> rest[1], name |-> rest[2],
      has_remote_parent |-> rest[3]] :
        parent \in SamplerParents, tid \in SamplerTraceIDs, rest \in SamplerRest}

NextSampler ==
    \/ \E k \in -1..5 : BuildSampler(k)
    \/ \E p \in SamplerParameters : CallSampler(p)

SpecSampler ==
    /\ Init
    /\ [][NextSampler /\ UNCHANGED <<span_vars, registry_call, codec_vars, bucket_vars,
                                     ts_vars, store_vars, kv_vars, latency_vars,
          finish_vars,
          mut_log,
          spancall_vars>>]_vars

\* is the parent there, with its sampled bit set?
ParentSampled(p) ==
    IsSome(p.parent_context) /\ is_sampled(Unwrap(p.parent_context).trace_options)

\* C15: a sampler built by probability_sampler answers sample = true whenever the
\* parent context is there and has its sampled bit set.
C15_SampledParentIsSticky ==
    (sp_last # None /\ ParentSampled(Unwrap(sp_last).params))
        => Unwrap(sp_last).sample

\* a sampler of fraction 0 was called for a trace id it would refuse, under a
\* sampled parent, and answered true
C15_Witness ==
    /\ sp_sampler = probability_sampler(0)
    /\ sp_last # None
    /\ ParentSampled(Unwrap(sp_last).params)
    /\ Unwrap(sp_last).params.trace_id = HighTID
    /\ Unwrap(sp_last).sample

\* C16: two calls of one probability sampler with the same first 8 bytes of the
\* trace id and the same sampled bit of the parent get the same answer.
C16_DecisionPerTraceId ==
    (sp_prev # None /\ sp_last # None)
        => LET a == Unwrap(sp_prev)
               b == Unwrap(sp_last)
           IN  (/\ SubSeq(a.params.trace_id, 1, 8) = SubSeq(b.params.trace_id, 1, 8)
                /\ ParentSampled(a.params) = ParentSampled(b.params))
                   => a.sample = b.sample

\* a sampler of fraction 1/2 was called twice for trace ids with the same first
\* half, with different span ids, names, remote flags and second halves, under no
\* sampled parent
C16_Witness ==
    /\ sp_sampler = probability_sampler(2)
    /\ sp_prev # None /\ sp_last # None
    /\ LET a == Unwrap(sp_prev).params
           b == Unwrap(sp_last).params
       IN  /\ a.trace_id = TID /\ b.trace_id = TIDOtherTail
           /\ a.span_id # b.span_id
           /\ a.name # b.name
           /\ a.has_remote_parent # b.has_remote_parent
           /\ ~ParentSampled(a) /\ ~ParentSampled(b)
           /\ a.parent_context # b.parent_context
    /\ Unwrap(sp_last).sample

-----------------------------------------------------------------------------
(* Keys and values alone: the constructors are given short strings over a few   *)
(* bytes and long strings around the size limit.                                *)

\* a, A, 1, space, =, comma, @, -
StringBytes == {97, 65, 49, 32, 61, 44, 64, 45}

ShortStrings == UNION {[1..n -> StringBytes] : n \in 0..MaxStrLen}

\* n times the byte c
Repeat(c, n) == [i \in 1..n |-> c]

LongStrings ==
    {Repeat(c, n) : c \in {97, 65, 44}, n \in {KEY_MAX_SIZE - 1, KEY_MAX_SIZE, KEY_MAX_SIZE + 1}}
    \cup {Repeat(97, n) \o <<c>> : c \in {32, 61, 49}, n \in {KEY_MAX_SIZE - 1, KEY_MAX_SIZE}}
    \cup {Repeat(97, t) \o <<64>> \o Repeat(97, v) :
              t \in {1, 240, 241, 242}, v \in {1, 13, 14, 15}}

NextKeyValue ==
    \/ \E key \in ShortStrings \cup LongStrings : KeyTryNew(key)
    \/ \E value \in ShortStrings \cup LongStrings : ValueTryNew(value)

SpecKeyValue ==
    /\ Init
    /\ [][NextKeyValue /\ UNCHANGED <<span_vars, registry_call, codec_vars, bucket_vars,
                                      ts_vars, store_vars, sampler_vars,
                                      latency_vars,
          finish_vars,
          mut_log,
          spancall_vars>>]_vars

\* the positions of the byte c in s
PositionsOf(c, s) == {i \in 1..Len(s) : s[i] = c}

\* a string the claim names as not matching the format of a key: empty, not
\* starting with a lowercase letter, or holding an uppercase letter, a space or =
NamedBadKey(s) ==
    \/ s = <<>>
    \/ s[1] \notin LowerCase
    \/ \E i \in 1..Len(s) : s[i] \in (65..90) \cup {32, 61}

\* a string the claim names as not matching the format of a value: empty, holding
\* a comma or =, or ending in a space
NamedBadValue(s) ==
    \/ s = <<>>
    \/ \E i \in 1..Len(s) : s[i] \in {44, 61}
    \/ s[Len(s)] = 32

\* the format of a key: a lowercase letter, then lowercase letters, digits, _ - * /;
\* at most 256 bytes, or with one @ at most 241 bytes before it and 14 after it,
\* the first one after it a lowercase letter too
FormatOfKey(s) ==
    /\ s # <<>>
    /\ s[1] \in LowerCase
    /\ \A i \in 1..Len(s) : s[i] \in KeyChars \cup {64}
    /\ \/ PositionsOf(64, s) = {} /\ Len(s) <= 256
       \/ \E at \in 2..(Len(s) - 1) :
             /\ PositionsOf(64, s) = {at}
             /\ at - 1 <= 241
             /\ Len(s) - at <= 14
             /\ s[at + 1] \in LowerCase

\* the format of a value: 1 to 256 printable ASCII bytes, none a comma or =, the
\* last one no space
FormatOfValue(s) ==
    /\ s # <<>>
    /\ Len(s) <= 256
    /\ \A i \in 1..Len(s) : s[i] \in (32..126) \ {44, 61}
    /\ s[Len(s)] # 32

\* C20: Key::try_new and Value::try_new answer ExceedsMaxSize for more than 256
\* bytes, whatever the bytes; for shorter strings DoesNotMatchRegex when the string
\* does not match the format (the empty string, the keys and values the claim
\* names), and Ok of the string when it does.
C20_SizeBeforeFormat ==
    kv_result # None
        => LET r == Unwrap(kv_result)
               s == kv_input
               key == kv_call = "Key::try_new"
               format == IF key THEN FormatOfKey(s) ELSE FormatOfValue(s)
               named == IF key THEN NamedBadKey(s) ELSE NamedBadValue(s)
           IN  /\ Len(s) > 256 => r = Err("ExceedsMaxSize")
               /\ (Len(s) <= 256 /\ named) => r = Err("DoesNotMatchRegex")
               /\ (Len(s) <= 256 /\ ~format) => r = Err("DoesNotMatchRegex")
               /\ (Len(s) <= 256 /\ format) => r = Ok(s)

\* a key of 257 uppercase letters was refused for its size
C20_Witness ==
    /\ kv_call = "Key::try_new"
    /\ kv_input = Repeat(65, KEY_MAX_SIZE + 1)
    /\ kv_result = Some(Err("ExceedsMaxSize"))

-----------------------------------------------------------------------------
(* latency_bucket alone: called for latencies at and around the boundaries.     *)

Latencies ==
    {0, 600000000}
    \cup {DEFAULT_LATENCIES[i] + d :
              i \in 1..Len(DEFAULT_LATENCIES), d \in (-MaxLatencyOffset)..MaxLatencyOffset}

NextLatency == \E latency \in Latencies : LatencyBucket(latency)

SpecLatency ==
    /\ Init
    /\ [][NextLatency /\ UNCHANGED <<span_vars, registry_call, codec_vars, bucket_vars,
                                     ts_vars, store_vars, sampler_vars, kv_vars,
                                     finish_vars,
          mut_log,
          spancall_vars>>]_vars

\* the boundaries: 10us, 100us, 1ms, 10ms, 100ms, 1s, 10s, 60s
Boundaries == {10, 100, 1000, 10000, 100000, 1000000, 10000000, 60000000}

\* C21: latency_bucket(l) is the number of the 8 boundaries that are <= l, a number
\* in 0..8; a longer latency never gets a lower bucket, and l lies in the range of
\* its bucket, lower bound included and upper bound not.
C21_LatencyBucket ==
    lat_last # None
        => LET b == Unwrap(lat_last)
           IN  /\ b.bucket = Cardinality({x \in Boundaries : x <= b.latency})
               /\ b.bucket \in 0..8
               /\ latency_bucket_bounds(b.bucket)[1] <= b.latency
               /\ b.latency < latency_bucket_bounds(b.bucket)[2]
               /\ lat_prev # None
                      => LET a == Unwrap(lat_prev)
                         IN  a.latency <= b.latency => a.bucket <= b.bucket

\* latency_bucket was called for 999us and then for 1ms, and gave 2 and 3
C21_Witness ==
    /\ lat_prev = Some([latency |-> 999, bucket |-> 2])
    /\ lat_last = Some([latency |-> 1000, bucket |-> 3])

-----------------------------------------------------------------------------
(* One span store: made by SpanStore::new, resized, and given finished spans   *)
(* of every status and of latencies of 0 s, 1 s, 10 s and 60 s.                *)

\* Status values
Statuses == {None} \cup {Some([code |-> c, message |-> ""]) : c \in StatusCodes}

\* the SpanData given to finished, cut down to what finished and the bucket look at
FinishedSpans ==
    {[start_time |-> StoreNow - d, end_time |-> e, status |-> st] :
        d \in {0, 1, 10, 60}, e \in {None, Some(StoreNow)}, st \in Statuses}

NextSpanStore ==
    \/ \E l, e \in 0..MaxCap : StoreNew("span0", l, e)
    \/ \E l, e \in 0..MaxCap : StoreResize(l, e)
    \/ \E sd \in FinishedSpans : StoreFinished(sd)

SpecSpanStore ==
    /\ Init
    /\ [][NextSpanStore /\ UNCHANGED <<span_vars, registry_call, codec_vars, bucket_vars,
                                       ts_vars, store_vars, sampler_vars, kv_vars,
                                       latency_vars, mut_log,
          spancall_vars>>]_vars

\* the buckets of a store by name: the latency buckets 0..8 and the error buckets
BucketNames(contents) ==
    {<<"latency", i>> : i \in 0..(Len(contents.latency) - 1)}
    \cup {<<"errors", code>> : code \in DOMAIN contents.errors}

BucketNamed(contents, which) ==
    IF which[1] = "latency" THEN contents.latency[which[2] + 1]
    ELSE contents.errors[which[2]]

\* the calls of the last finished that are calls of fn
CallsOf(fn) == SelectSeq(Unwrap(ss_call).calls, LAMBDA c : c.fn = fn)

\* C22: finished makes one add call: for status code OK on the latency bucket whose
\* index is the number of boundaries <= end time - start time, for any other code,
\* and Unknown for a span without status, on the error bucket of the code, which
\* is made first, by Bucket::new of the store's max_spans_per_error_bucket, when
\* the store has none; every other bucket of the store is as it was.
C22_FinishedRoutes ==
    ss_call # None
        => LET sd == Unwrap(ss_call).sd
               code == IF sd.status = None THEN "Unknown" ELSE Unwrap(sd.status).code
               seconds == (IF sd.end_time = None THEN StoreNow ELSE Unwrap(sd.end_time))
                          - sd.start_time
               target == IF code = "OK"
                         THEN <<"latency",
                                Cardinality({b \in Boundaries : b <= seconds * 1000000})>>
                         ELSE <<"errors", code>>
               fresh == target \notin BucketNames(ss_before)
           IN  /\ CallsOf("add") = <<BucketCall("add", target, 0)>>
               /\ CallsOf("new") =
                      IF fresh
                      THEN <<BucketCall("new", target, ss_before.max_spans_per_error_bucket)>>
                      ELSE <<>>
               /\ Len(Unwrap(ss_call).calls) = (IF fresh THEN 2 ELSE 1)
               /\ BucketNames(ss) = BucketNames(ss_before) \cup {target}
               /\ \A which \in BucketNames(ss_before) \ {target} :
                      BucketNamed(ss, which) = BucketNamed(ss_before, which)
               /\ ss.max_spans_per_error_bucket = ss_before.max_spans_per_error_bucket

\* a store made for error buckets of size 1 was resized to size 2 and given a span
\* of status NotFound; then a span without status came, and a bucket for Unknown
\* was made with size 2 next to the one for NotFound
C22_Witness ==
    /\ ss_call # None
    /\ Unwrap(ss_call).sd.status = None
    /\ Unwrap(ss_call).calls =
           <<BucketCall("new", <<"errors", "Unknown">>, 2),
             BucketCall("add", <<"errors", "Unknown">>, 0)>>
    /\ DOMAIN ss_before.errors = {"NotFound"}
    /\ DOMAIN ss.errors = {"NotFound", "Unknown"}
    /\ ss.latency[1].overflow

-----------------------------------------------------------------------------
(* One span and its mutators: the span is started under the remote parent of   *)
(* the tests, sampled or not, with a span kind; the global default sampler     *)
(* changes, an exporter is registered, the mutators are called on the span and *)
(* it is ended, in any order.                                                  *)

\* the attributes of tests::span_data::set_span_attributes, and others
AttributeMaps ==
    {("key1" :> "value1"), ("key2" :> "value2")}

\* a Status and a Link
TestStatus == [code |-> "NotFound", message |-> "gone"]
TestLink == [trace_id |-> TID, span_id |-> SID, type |-> "Child", attributes |-> <<>>]

\* the options of a start: none, or with_span_kind(Client)
KindOptions ==
    {StartOptions_default, with_span_kind(StartOptions_default, "Client")}

NextMutators ==
    \/ \E opts \in {0, 1}, o \in KindOptions :
          /\ spans = <<>>
          /\ StartWithRemoteParent("span0", TestParent(opts), o, SID2)
          /\ UNCHANGED mut_log
    \/ /\ spans = <<>>
       /\ StartRoot("span0", StartOptions_default, TID, SID2)
       /\ UNCHANGED mut_log
    \/ \E s \in {always_sample, never_sample} :
          set_global_default_sampler(s) /\ UNCHANGED mut_log
    \/ register_exporter("te1") /\ UNCHANGED mut_log
    \/ \E s \in 1..Len(spans) : SetName(s, "span1")
    \/ \E s \in 1..Len(spans) : SetStatus(s, TestStatus)
    \/ \E s \in 1..Len(spans), attrs \in AttributeMaps : AddAttributes(s, attrs)
    \/ \E s \in 1..Len(spans) : AddLink(s, TestLink)
    \/ \E s \in 1..Len(spans) : EndCall(1, s) /\ UNCHANGED mut_log
    \/ EndLock(1) /\ UNCHANGED mut_log
    \/ EndExport(1) /\ UNCHANGED mut_log
    \/ Tick /\ UNCHANGED mut_log

SpecMutators ==
    /\ Init
    /\ [][NextMutators /\ UNCHANGED <<registry_call, codec_vars, bucket_vars, ts_vars,
                                      store_vars, sampler_vars, kv_vars, latency_vars,
                                      finish_vars, spancall_vars>>]_vars

\* the calls of mutators made on span s
MutatorCalls(s) == SelectSeq(mut_log, LAMBDA c : c.span = s)

\* C23: a span records events exactly when its context has the sampled bit, in
\* every state; and no step changes the context of a span or whether it records.
C23_RecordingIsSampledBit ==
    /\ [](\A s \in 1..Len(spans) :
             is_recording_events(spans[s]) = is_sampled(spans[s].span_context.trace_options))
    /\ [][\A s \in 1..Len(spans) :
             /\ spans'[s].span_context = spans[s].span_context
             /\ is_recording_events(spans'[s]) = is_recording_events(spans[s])]_vars

\* a span made unsampled has had two mutators called and its end, an exporter is
\* registered and the global default sampler is now always_sample: it does not
\* record
C23_Witness ==
    \E s \in 1..Len(spans) :
        /\ ~is_sampled(spans[s].span_context.trace_options)
        /\ ~is_recording_events(spans[s])
        /\ Len(MutatorCalls(s)) = 2
        /\ end_calls[s] >= 1
        /\ exporters # <<>>
        /\ default_sampler = always_sample
        /\ start_log[s].cfg_sampler # always_sample

\* C24: a step that is a call of set_name, set_status, add_attributes or add_link
\* on a span that does not record, or the return of its end, leaves the span as it
\* was, with no SpanData, and makes no export_span call and no finished call.
C24_NonRecordingNoOps ==
    [][\A s \in 1..Len(spans) :
          (/\ ~is_recording_events(spans[s])
           /\ \/ end_calls'[s] > end_calls[s]
              \/ /\ Len(mut_log') > Len(mut_log)
                 /\ mut_log'[Len(mut_log')].span = s)
              => /\ spans'[s] = spans[s]
                 /\ exported' = exported
                 /\ finished' = finished]_vars

\* on a span that does not record, with an exporter registered, add_attributes and
\* set_name were called and end has returned twice: nothing was exported
C24_Witness ==
    \E s \in 1..Len(spans) :
        /\ ~is_recording_events(spans[s])
        /\ exporters # <<>>
        /\ \E i, j \in 1..Len(mut_log) :
              /\ mut_log[i].span = s /\ mut_log[i].fn = "add_attributes"
              /\ mut_log[j].span = s /\ mut_log[j].fn = "set_name"
        /\ end_calls[s] = 2
        /\ spans[s].data = None
        /\ exported = <<>>
        /\ finished = <<>>

\* the add_attributes calls made on the span of the i-th export_span call before its
\* snapshot was taken
AttributeCalls(i) ==
    SelectSeq(mut_log, LAMBDA c : /\ c.fn = "add_attributes"
                                  /\ c.span = exported[i].span
                                  /\ c.before_end)

\* C27: when add_attributes(A) and then add_attributes(B) were the last two such
\* calls on a span before its end, the exported attributes have every entry of B
\* and every entry of A whose key is not in B.
C27_AttributesAccumulate ==
    \A i \in 1..Len(exported) :
        LET calls == AttributeCalls(i)
            n == Len(calls)
            got == exported[i].data.attributes
        IN  n >= 2
              => LET A == calls[n - 1].arg
                     B == calls[n].arg
                 IN  /\ \A k \in DOMAIN B : k \in DOMAIN got /\ got[k] = B[k]
                     /\ \A k \in (DOMAIN A) \ (DOMAIN B) : k \in DOMAIN got /\ got[k] = A[k]

\* C28: the SpanData exported for a span started by start_span_with_remote_parent
\* on which no mutator was called before its end has the context of the span, with
\* the parent's trace id and the sampled bit, the parent's span id as
\* parent_span_id, has_remote_parent, the name and the span kind of the start, an
\* end time, and no attributes, annotations, message events, links or status.
C28_ExportedSpanData ==
    \A i \in 1..Len(exported) :
        LET s == exported[i].span
            l == start_log[s]
            got == exported[i].data
        IN  (l.remote_parent /\ \A j \in 1..Len(mut_log) :
                                   mut_log[j].span = s => ~mut_log[j].before_end)
              => /\ got.span_context = spans[s].span_context
                 /\ got.span_context.trace_id = Unwrap(l.parent).trace_id
                 /\ got.span_context.trace_options % 2 = 1
                 /\ got.parent_span_id = Some(Unwrap(l.parent).span_id)
                 /\ got.has_remote_parent
                 /\ got.name = l.name
                 /\ got.span_kind = l.o.span_kind
                 /\ got.span_kind \in SpanKinds
                 /\ got.end_time # None
                 /\ got.attributes = <<>>
                 /\ got.annotations = <<>>
                 /\ got.message_events = <<>>
                 /\ got.links = <<>>
                 /\ got.status = None

\* a span started with with_span_kind(Client) under the sampled remote parent was
\* exported, and mutators were called on it only after its end
C28_Witness ==
    \E i \in 1..Len(exported) :
        /\ start_log[exported[i].span].remote_parent
        /\ start_log[exported[i].span].o = with_span_kind(StartOptions_default, "Client")
        /\ exported[i].data.span_kind = "Client"
        /\ exported[i].data.parent_span_id = Some(SID)
        /\ mut_log # <<>>
        /\ \A j \in 1..Len(mut_log) : ~mut_log[j].before_end

\* C25: the span id of a span started under a parent, local or remote, is not the
\* parent's span id and not the all-zero span id, whatever the id generator returns.
C25_ChildIdDiffers ==
    \A i \in 1..Len(spans) :
        start_log[i].parent # None
          => /\ spans[i].span_context.span_id # Unwrap(start_log[i].parent).span_id
             /\ spans[i].span_context.span_id # Zero8

\* the calls of fn among the id generator calls of the i-th start
IdCalls(i, fn) == SelectSeq(start_log[i].id_calls, LAMBDA c : c.fn = fn)

\* C26: a start without parent makes one new_trace_id call and takes its trace id
\* from it; a start with a parent, local or remote, makes none and keeps the
\* parent's trace id and tracestate; every start makes one new_span_id call and
\* takes its span id from it; the trace-option bits other than bit 0 are the
\* parent's, and 0 without parent.
C26_IdsOfAStart ==
    \A i \in 1..Len(spans) :
        LET l == start_log[i]
            sc == spans[i].span_context
        IN  /\ Len(IdCalls(i, "new_span_id")) = 1
            /\ sc.span_id = IdCalls(i, "new_span_id")[1].ret
            /\ Len(l.id_calls) = Len(IdCalls(i, "new_span_id")) + Len(IdCalls(i, "new_trace_id"))
            /\ IF l.parent = None
               THEN /\ Len(IdCalls(i, "new_trace_id")) = 1
                    /\ sc.trace_id = IdCalls(i, "new_trace_id")[1].ret
                    /\ sc.trace_options \div 2 = 0
               ELSE /\ Len(IdCalls(i, "new_trace_id")) = 0
                    /\ sc.trace_id = Unwrap(l.parent).trace_id
                    /\ sc.trace_state = Unwrap(l.parent).trace_state
                    /\ sc.trace_options \div 2 = Unwrap(l.parent).trace_options \div 2

\* a span under the remote parent with options 3 that the sampler turned down: it
\* has the parent's trace id and options 2; and under it a local child with the
\* same trace id and options 2 and the span id of its own new_span_id call
C26_Witness ==
    /\ Len(spans) = 2
    /\ start_log[1].remote_parent
    /\ Unwrap(start_log[1].parent).trace_options = 3
    /\ spans[1].span_context.trace_id = TID
    /\ spans[1].span_context.trace_options = 2
    /\ start_log[2].parent_span = 1
    /\ spans[2].span_context.trace_id = TID
    /\ spans[2].span_context.trace_options = 2
    /\ spans[2].span_context.span_id = SID2
    /\ spans[1].span_context.span_id = SID

\* what a sampler of fraction k/4 is to answer on p: with 0 <= k < 4 and no sampled
\* parent, whether the first 8 bytes of the trace id, read big-endian and shifted
\* right by one, are below floor(k/4 * 2^63) = k * 2^61, which is whether the top
\* two bits of the first byte are below k
DecisionOfQuarters(k, p) ==
    IF k >= 4 THEN TRUE
    ELSE IF ParentSampled(p) THEN TRUE
    ELSE IF k < 0 THEN FALSE
    ELSE p.trace_id[1] \div 64 < k

\* C29: every answer of the sampler built by probability_sampler(k/4) is the one
\* the fraction given at construction fixes: for 0 <= k/4 < 1 and no sampled
\* parent, sample exactly when the shifted first half of the trace id is below
\* floor(k/4 * 2^63); always for k/4 >= 1; for a negative fraction only under a
\* sampled parent.
C29_ProbabilityThreshold ==
    \A k \in -1..5 :
        sp_sampler = probability_sampler(k)
          => /\ sp_last # None
                  => Unwrap(sp_last).sample = DecisionOfQuarters(k, Unwrap(sp_last).params)
             /\ sp_prev # None
                  => Unwrap(sp_prev).sample = DecisionOfQuarters(k, Unwrap(sp_prev).params)

\* the sampler of fraction 1/2 refused the trace id whose shifted first half is
\* 2^62 and then took the one where it is 2^62 - 1, both times without sampled
\* parent
C29_Witness ==
    /\ sp_sampler = probability_sampler(2)
    /\ sp_prev # None /\ sp_last # None
    /\ Unwrap(sp_prev).params.trace_id = HalfTID
    /\ ~ParentSampled(Unwrap(sp_prev).params)
    /\ ~Unwrap(sp_prev).sample
    /\ Unwrap(sp_last).params.trace_id = BelowHalfTID
    /\ ~ParentSampled(Unwrap(sp_last).params)
    /\ Unwrap(sp_last).sample

-----------------------------------------------------------------------------
(* The bucket again: growing it, reading it, refusing a record.               *)

\* the call the last step of the bucket's history made
LastBucketOp == bucket_hist[Len(bucket_hist)]

\* C31: a resize(m) with m above the number c of records held keeps the c records
\* in their order, makes the buffer m long, sets the cursor to c and clears the
\* overflow flag, and does not panic; also on the empty bucket.
C31_GrowKeepsEntries ==
    [][(/\ bucket_state = "live"
        /\ Len(bucket_hist') = Len(bucket_hist) + 1
        /\ LastBucketOp'.op = "resize"
        /\ LastBucketOp'.size > bucket_size(bucket))
          => /\ bucket_state' = "live"
             /\ Len(bucket'.buffer) = LastBucketOp'.size
             /\ Contents(bucket') = Contents(bucket)
             /\ bucket'.next_index = bucket_size(bucket)
             /\ ~bucket'.overflow]_vars

\* C33: an add of a record without end time, or into a bucket whose buffer has no
\* slot, changes nothing of the bucket (buffer, cursor, overflow flag, next_time)
\* and does not panic.
C33_RejectedAddChangesNothing ==
    [][(/\ bucket_state = "live"
        /\ Len(bucket_hist') = Len(bucket_hist) + 1
        /\ \/ LastBucketOp'.op = "add_unended"
           \/ LastBucketOp'.op = "add" /\ Len(bucket.buffer) = 0)
          => /\ bucket_state' = "live"
             /\ bucket' = bucket]_vars

\* a bucket made by new(0) was given a record without end time and then one with
\* an end time, and is as new made it
C33_Witness ==
    /\ Len(bucket_hist) = 3
    /\ bucket_hist[1].size = 0
    /\ bucket_hist[2].op = "add_unended"
    /\ bucket_hist[3].op = "add"
    /\ bucket_state = "live"
    /\ bucket = bucket_new(0, 0)

\* C39: after any new, add and resize calls the cursor is 0 when the buffer is
\* empty and below the buffer's length otherwise, the logical size is at most the
\* buffer's length, and no call has indexed the buffer out of bounds.
C39_BucketWellFormed ==
    bucket_state # "none"
      => /\ bucket_state # "panicked"
         /\ IF bucket.buffer = <<>> THEN bucket.next_index = 0
            ELSE bucket.next_index < Len(bucket.buffer)
         /\ bucket_size(bucket) <= Len(bucket.buffer)

-----------------------------------------------------------------------------
(* Bucket::span alone, on buckets whose buffer has slots: the values of Bucket  *)
(* that Bucket::add makes of a buffer of len slots.  Bucket::new gives its      *)
(* buffer no slot (Vec::with_capacity), so these are values of the type that    *)
(* the private method can be given, not buckets that Bucket::new has made.      *)

NextBucketSpan ==
    \E len \in 1..MaxCap, k \in 0..MaxBucketOps :
        \E idx \in 0..(bucket_size(FilledBucket(len, k)) - 1) :
            SpanCall(FilledBucket(len, k), idx)

SpecBucketSpan ==
    /\ Init
    /\ [][NextBucketSpan /\ UNCHANGED <<span_vars, registry_call, codec_vars, bucket_vars,
                                          ts_vars, store_vars, sampler_vars, kv_vars,
                                          latency_vars, finish_vars, mut_log>>]_vars

\* the slot the idx-th oldest record is in: counted from the cursor around the end
\* of the buffer when the bucket has wrapped, counted from 0 when it has not
SlotOfOldest(b, idx) ==
    IF b.overflow
    THEN IF idx < Len(b.buffer) - b.next_index THEN b.next_index + idx
         ELSE b.next_index + idx - Len(b.buffer)
    ELSE idx

-----------------------------------------------------------------------------
(* The SpanStore again: its resize.                                           *)

\* the last n elements of seq, or all of it when it has fewer
LastOf(seq, n) ==
    IF n >= Len(seq) THEN seq ELSE SubSeq(seq, Len(seq) - n + 1, Len(seq))

\* b is the bucket a made n slots wide, with the most recent records of a in order
ResizedTo(b, a, n) ==
    /\ Len(b.buffer) = n
    /\ Contents(b) = LastOf(Contents(a), n)

\* C34: resize(l, e) on a store leaves 9 latency buckets of l slots and the error
\* buckets it had, each of e slots, every bucket with its most recent records in
\* order, and max_spans_per_error_bucket at e; it does not panic.
C34_StoreResize ==
    [][\A l, e \in 0..MaxCap :
          StoreResize(l, e)
            => /\ ss_state' = "live"
               /\ Len(ss'.latency) = NumLatencies + 1
               /\ \A i \in 1..(NumLatencies + 1) : ResizedTo(ss'.latency[i], ss.latency[i], l)
               /\ DOMAIN ss'.errors = DOMAIN ss.errors
               /\ \A code \in DOMAIN ss.errors : ResizedTo(ss'.errors[code], ss.errors[code], e)
               /\ ss'.max_spans_per_error_bucket = e]_vars

-----------------------------------------------------------------------------
(* The codec again: buffers that came from elsewhere.                         *)

\* a buffer of 29 bytes or more with version 0 and the three field ids in place
\* (bytes 0, 1, 18 and 27 of the code's numbering)
WellTagged(b) ==
    /\ Len(b) >= 29
    /\ b[1] = 0 /\ b[2] = 0 /\ b[19] = 1 /\ b[28] = 2

\* C38: from_binary returns a context for every buffer of 29 bytes or more that has
\* version 0 and the field ids 0, 1 and 2 at bytes 1, 18 and 27, whatever follows
\* byte 28; its trace options are below 256; and to_binary of that context is the
\* first 29 bytes of the buffer.
C38_DecodeThenEncode ==
    (codec_pc \in {"decoded", "reencoded"} /\ WellTagged(wire))
      => /\ decoded # None
         /\ Unwrap(decoded).trace_options < 256
         /\ Unwrap(decoded).trace_state = None
         /\ codec_pc = "reencoded" => reencoded = Some(SubSeq(wire, 1, 29))

\* a buffer of 30 bytes with options 3 was decoded and the context encoded again
C38_Witness ==
    /\ codec_pc = "reencoded"
    /\ WellTagged(wire)
    /\ Len(wire) = 29 + MaxExtra
    /\ wire[29] = 3
    /\ Unwrap(decoded).trace_options = 3
    /\ Len(Unwrap(reencoded)) = 29

-----------------------------------------------------------------------------
(* The mutators again: what the exporters were handed, and calls that come     *)
(* while the span is ended.                                                    *)

\* C35: every SpanData handed to an exporter or a store has an end time, not
\* before its start time; and no step, a mutator called after the end among them,
\* changes a SpanData that was handed over.
C35_SnapshotIsItsOwn ==
    /\ [](/\ \A i \in 1..Len(exported) :
                /\ exported[i].data.end_time # None
                /\ Unwrap(exported[i].data.end_time) >= exported[i].data.start_time
          /\ \A i \in 1..Len(finished) :
                /\ finished[i].data.end_time # None
                /\ Unwrap(finished[i].data.end_time) >= finished[i].data.start_time)
    /\ [][/\ Len(exported') >= Len(exported)
          /\ \A i \in 1..Len(exported) : exported'[i] = exported[i]
          /\ Len(finished') >= Len(finished)
          /\ \A i \in 1..Len(finished) : finished'[i] = finished[i]]_vars

\* a span started at 0 was exported with end time 1 under the name span0, and
\* set_name called on it after its end has changed the record of the span only
C35_Witness ==
    /\ Len(exported) = 1
    /\ exported[1].data.start_time = 0
    /\ exported[1].data.end_time = Some(1)
    /\ exported[1].data.name = "span0"
    /\ \E j \in 1..Len(mut_log) :
          /\ mut_log[j].fn = "set_name"
          /\ mut_log[j].span = exported[1].span
          /\ ~mut_log[j].before_end
    /\ Unwrap(spans[exported[1].span].data).name = "span1"

\* the arguments of the calls of fn on span s, all of them or those before its end
ArgsOf(fn, s, all) ==
    LET calls == SelectSeq(mut_log, LAMBDA c : /\ c.fn = fn /\ c.span = s
                                               /\ (all \/ c.before_end))
    IN  [i \in 1..Len(calls) |-> calls[i].arg]

\* the last element of seq, or otherwise when it has none
LastOr(seq, otherwise) == IF seq = <<>> THEN otherwise ELSE seq[Len(seq)]

\* C36: the record of a recording span has the link of every add_link call made
\* on it, in the order of the calls, whatever ends and other mutators run at the
\* same time (no lost update); and the snapshot its end took has every mutation
\* that came before it whole and nothing of those that came after: the links added
\* before, the last name and the last status set before.
C36_MutatorsLinearized ==
    /\ \A s \in 1..Len(spans) :
          is_recording_events(spans[s])
            => Unwrap(spans[s].data).links = ArgsOf("add_link", s, TRUE)
    /\ \A i \in 1..Len(exported) :
          LET s == exported[i].span
              got == exported[i].data
          IN  /\ got.links = ArgsOf("add_link", s, FALSE)
              /\ got.name = LastOr(ArgsOf("set_name", s, FALSE), start_log[s].name)
              /\ got.status = LastOr([j \in 1..Len(ArgsOf("set_status", s, FALSE)) |->
                                         Some(ArgsOf("set_status", s, FALSE)[j])], None)

\* add_link was called on a span before its end took the snapshot and again
\* after: the exported snapshot has the first link, the record has both
C36_Witness ==
    /\ Len(exported) = 1
    /\ Len(mut_log) = 2
    /\ mut_log[1].fn = "add_link" /\ mut_log[1].before_end
    /\ mut_log[2].fn = "add_link" /\ ~mut_log[2].before_end
    /\ exported[1].data.links = <<TestLink>>
    /\ Unwrap(spans[exported[1].span].data).links = <<TestLink, TestLink>>

-----------------------------------------------------------------------------
(* The span life cycle again: the registry during an export, and the Once.     *)

\* the exporters called for span s so far, in the order of the calls
ExportersCalled(s) ==
    LET calls == SelectSeq(exported, LAMBDA c : c.span = s)
    IN  [i \in 1..Len(calls) |-> calls[i].exporter]

\* C37: the exporters called for an ended span are the registry as it was when the
\* end took the read lock, each once and in the order of registration; while an
\* end is in its export loop the registry is as that end found it and the calls
\* made so far are the first of that list; and when no end is under way
\* register_exporter can go ahead.
C37_ExportUnderReadLock ==
    /\ \A s \in 1..Len(spans) :
          (spans[s].end_once = "complete" /\ end_snapshot[s] # None)
            => ExportersCalled(s) = Unwrap(end_snapshot[s])
    /\ \A t \in Threads :
          pc[t] = "export"
            => /\ exporters = Unwrap(end_snapshot[cur[t]])
               /\ ExportersCalled(cur[t]) = SubSeq(exporters, 1, next_exp[t] - 1)
    /\ (\A t \in Threads : pc[t] = "idle")
            => \A e \in Exporters : ENABLED register_exporter(e)

\* a span was handed to te1 and then te2, the registry when its end took the lock,
\* and the registry has been changed since
C37_Witness ==
    \E s \in 1..Len(spans) :
        /\ spans[s].end_once = "complete"
        /\ end_snapshot[s] = Some(<<"te1", "te2">>)
        /\ ExportersCalled(s) = <<"te1", "te2">>
        /\ exporters = <<"te2">>

\* C40: once the closure of the Once has run for a span it never runs again; a span
\* whose closure found no exporter registered is never exported, whatever is
\* registered afterwards and however often end is called again; and a span whose
\* end was never called is not exported.
C40_LatchIsConsumed ==
    /\ [](\A s \in 1..Len(spans) :
             /\ end_snapshot[s] = Some(<<>>) => ExportersCalled(s) = <<>>
             /\ (end_calls[s] = 0 /\ InEnd(s) = {}) => ExportersCalled(s) = <<>>)
    /\ [][\A s \in 1..Len(spans) :
             end_snapshot[s] # None => end_snapshot'[s] = end_snapshot[s]]_vars

\* the first end of a recording span ran with no exporter registered, te1 was
\* registered afterwards and end was called a second time: nothing was exported
C40_Witness ==
    \E s \in 1..Len(spans) :
        /\ is_recording_events(spans[s])
        /\ end_snapshot[s] = Some(<<>>)
        /\ exporters = <<"te1">>
        /\ end_calls[s] = 2
        /\ exported = <<>>

====
